---------------------------- MODULE Spec2Model ----------------------------
(***************************************************************************)
(* Layout pipeline of the e-ink day calendar (TufteDayCalendar.js).  The   *)
(* source file holds two versions of the component: the landscape one      *)
(* (lines 1-310, 800x480, horizontal lanes) and the portrait one (lines    *)
(* 312-634, 480x800, vertical axis with label columns).  Both are modelled.*)
(*                                                                         *)
(* An event is a record [start, end] in minutes since midnight; title and  *)
(* where are text that no layout decision reads and are left out.          *)
(*                                                                         *)
(* Of the render server (part_008, part_009) the module holds the fetch of *)
(* today's events with its cache, the search for a system browser, the     *)
(* launch options, and the render queue with the shared browser page; each *)
(* has a specification of its own.                                         *)
(***************************************************************************)
EXTENDS Integers, Sequences, FiniteSets, TLC

VARIABLES events, dayStart, dayEnd, showDensity, scene, prev

\* The render server (part_008): its configuration, the credentials file, the
\* module-level calendarService and eventsCache, the clock (Date.now(), in ms
\* since the process started), the result of the last fetchTodaysEvents call,
\* and, per day, the list the last successful live fetch for that day returned.
VARIABLES credentialsPath, calendarIds, fileExists, calendarService, eventsCache,
          clock, fetched, lastGood

renderVars == <<events, dayStart, dayEnd, showDensity, scene, prev>>

fetchVars == <<credentialsPath, calendarIds, fileExists, calendarService, eventsCache,
               clock, fetched, lastGood>>

\* Launching the browser (part_008 buildLaunchOptions, part_009): the host the
\* server runs on (platform, bundled Chromium, environment), what the file
\* system holds at the candidate locations, the options of a direct call of
\* findSystemChromiumExecutable and its result, and the launch options built.
VARIABLES host, files, search, found, launch

launchVars == <<host, files, search, found, launch>>

\* The render queue and the shared browser page (part_008): the jobs handed to
\* serialize in the order of the calls, the warmup render, the module-level
\* browserPromise and pagePromise, and every promise getPage has created (a
\* page is known by the index of its promise).
VARIABLES jobs, warmup, browserPromise, pagePromise, promises

serveVars == <<jobs, warmup, browserPromise, pagePromise, promises>>

vars == <<renderVars, fetchVars, launchVars, serveVars>>

(***************************************************************************)
(* Bounds of the model.                                                    *)
(***************************************************************************)
MaxEvents == 3

MaxEventsDet == 2
\* Calendars configured in CALENDAR_IDS, at most.
MaxCalendars == 2
\* The fetch clock stops here (ms).
MaxClock == 240000

\* Events a request may carry (a list may repeat one).  The pool holds
\* nested and abutting events, two events near the end of the default window,
\* an event that starts before the window, one that lies after it, and a
\* zero-length one (an all-day entry normalises to such an event).
EventPool ==
  { [start |-> 540,  end |-> 600],
    [start |-> 555,  end |-> 585],
    [start |-> 600,  end |-> 630],
    [start |-> 1215, end |-> 1230],
    [start |-> 1250, end |-> 1260],
    [start |-> 420,  end |-> 500],
    [start |-> 600,  end |-> 600],
    [start |-> 1300, end |-> 1320] }

\* Display windows <<dayStart, dayEnd>>: the portrait default, the landscape
\* default, and a window of zero length.
Windows == { <<480, 1260>>, <<360, 1260>>, <<600, 600>> }

\* Wall-clock readings a render may see: before, inside and after the windows.
NowSet ==
  { [minutes |-> 300, seconds |-> 10],
    [minutes |-> 600, seconds |-> 45],
    [minutes |-> 1290, seconds |-> 30] }

RECURSIVE SeqsUpTo(_, _)
SeqsUpTo(S, n) ==
  IF n = 0 THEN { <<>> }
  ELSE LET shorter == SeqsUpTo(S, n - 1)
       IN  shorter \cup { Append(s, x) : s \in shorter, x \in S }

(***************************************************************************)
(* JavaScript numbers.  Pixel values are integers when finite; the three   *)
(* non-finite doubles are encoded by numbers no finite value of the model  *)
(* comes near.                                                             *)
(***************************************************************************)
Infinity == 1000000

NegInfinity == -Infinity

NaN == 2000000

IsNaN(x) == x = NaN

IsFinite(x) == x > NegInfinity /\ x < Infinity

\* x + k and x - k for a finite k
Plus(x, k) == IF IsFinite(x) THEN x + k ELSE x

\* a - b
Minus(a, b) ==
  IF IsNaN(a) \/ IsNaN(b) THEN NaN
  ELSE IF IsFinite(a) /\ IsFinite(b) THEN a - b
  ELSE IF IsFinite(b) THEN a
  ELSE IF IsFinite(a) THEN -b
  ELSE IF a = b THEN NaN ELSE a

\* a < b, a <= b: false when either side is NaN
Lt(a, b) == ~IsNaN(a) /\ ~IsNaN(b) /\ a < b

Le(a, b) == ~IsNaN(a) /\ ~IsNaN(b) /\ a <= b

MathMax(a, b) == IF IsNaN(a) \/ IsNaN(b) THEN NaN ELSE IF a >= b THEN a ELSE b

MathMin(a, b) == IF IsNaN(a) \/ IsNaN(b) THEN NaN ELSE IF a <= b THEN a ELSE b

MathAbs(a) == IF IsNaN(a) THEN NaN ELSE IF a < 0 THEN -a ELSE a

\* The sign a comparator's result has for Array.prototype.sort: NaN counts as 0.
SortOrder(d) == IF IsNaN(d) \/ d = 0 THEN 0 ELSE IF d < 0 THEN -1 ELSE 1

\* Math.ceil(a / b) and Math.floor(a / b) for b > 0
CeilDiv(a, b) == -((-a) \div b)

FloorDiv(a, b) == a \div b

\* Math.round(m * (span / total)): round half up; span / 0 is Infinity, and
\* 0 * Infinity is NaN.
RoundScaled(m, span, total) ==
  IF total = 0
    THEN IF m > 0 THEN Infinity ELSE IF m < 0 THEN NegInfinity ELSE NaN
    ELSE (2 * m * span + total) \div (2 * total)

(***************************************************************************)
(* Array.prototype.sort as Node's engine runs it on a short array: an      *)
(* initial run is found (a strictly descending one is reversed) and the    *)
(* remaining elements are placed by binary insertion.  With a consistent   *)
(* comparator this is the stable sort.                                     *)
(***************************************************************************)
\* Mutant: the comparator without its tie-break on end.
CompareEventsByStart(a, b) == a.start - b.start

\* (a, b) => a.start - b.start || a.end - b.end
CompareEvents(a, b) ==
  IF a.start - b.start # 0 THEN a.start - b.start ELSE a.end - b.end

\* (a, b) => a.desiredTop - b.desiredTop
CompareDesiredTop(a, b) == Minus(a.desiredTop, b.desiredTop)

\* a.title.localeCompare(b.title) on the titles the model uses
TitleRank(t) ==
  CASE t = "Review" -> 1
    [] t = "Standup" -> 2
    [] t = "Untitled Event" -> 3
    [] OTHER -> 0

\* (a, b) => a.start - b.start || a.end - b.end || a.title.localeCompare(b.title)
CompareFetched(a, b) ==
  IF a.start - b.start # 0 THEN a.start - b.start
  ELSE IF a.end - b.end # 0 THEN a.end - b.end
  ELSE TitleRank(a.title) - TitleRank(b.title)

Compare(by, a, b) ==
  SortOrder(CASE by = "events" -> CompareEvents(a, b)
              [] by = "fetched" -> CompareFetched(a, b)
              [] OTHER -> CompareDesiredTop(a, b))

Reverse(s) == [i \in 1..Len(s) |-> s[Len(s) + 1 - i]]

RECURSIVE RunLength(_, _, _, _)
RunLength(a, by, isDescending, idx) ==
  IF idx > Len(a) THEN idx - 1
  ELSE LET order == Compare(by, a[idx], a[idx - 1])
       IN  IF (isDescending /\ order >= 0) \/ (~isDescending /\ order < 0)
             THEN idx - 1
             ELSE RunLength(a, by, isDescending, idx + 1)

RECURSIVE InsertionPoint(_, _, _, _, _)
InsertionPoint(a, by, pivot, left, right) ==
  IF left >= right THEN left
  ELSE LET mid == left + ((right - left) \div 2)
       IN  IF Compare(by, pivot, a[mid + 1]) < 0
             THEN InsertionPoint(a, by, pivot, left, mid)
             ELSE InsertionPoint(a, by, pivot, mid + 1, right)

RECURSIVE BinaryInsertionSort(_, _, _)
BinaryInsertionSort(a, by, start) ==
  IF start > Len(a) THEN a
  ELSE LET pivot == a[start]
           left  == InsertionPoint(a, by, pivot, 0, start - 1)
           moved == SubSeq(a, 1, left) \o <<pivot>> \o SubSeq(a, left + 1, start - 1)
                    \o SubSeq(a, start + 1, Len(a))
       IN  BinaryInsertionSort(moved, by, start + 1)

ArraySort(a, by) ==
  IF Len(a) < 2 THEN a
  ELSE LET isDescending == Compare(by, a[2], a[1]) < 0
           run == RunLength(a, by, isDescending, 3)
           withRun == IF isDescending
                        THEN Reverse(SubSeq(a, 1, run)) \o SubSeq(a, run + 1, Len(a))
                        ELSE a
       IN  BinaryInsertionSort(withRun, by, run + 1)

(***************************************************************************)
(* Normalisation: [...events].map((e, i) => ({ id: i, ...e })).sort(...)   *)
(***************************************************************************)
WithIds(evs) ==
  [i \in 1..Len(evs) |-> [id |-> i - 1, start |-> evs[i].start, end |-> evs[i].end]]

SortedEvts(evs) == ArraySort(WithIds(evs), "events")

(***************************************************************************)
(* Lane assignment, landscape component.                                   *)
(***************************************************************************)
\* Mutant: a lane whose last event ends exactly at the new start still held.
RECURSIVE FirstFreeLaneInclusive(_, _, _)
FirstFreeLaneInclusive(laneEnds, start, lane) ==
  IF lane < Len(laneEnds) /\ laneEnds[lane + 1] >= start
    THEN FirstFreeLaneInclusive(laneEnds, start, lane + 1)
    ELSE lane

RECURSIVE FirstFreeLane(_, _, _)
FirstFreeLane(laneEnds, start, lane) ==
  IF lane < Len(laneEnds) /\ laneEnds[lane + 1] > start
    THEN FirstFreeLane(laneEnds, start, lane + 1)
    ELSE lane

RECURSIVE AssignLanesFrom(_, _, _, _)
AssignLanesFrom(evts, i, laneEnds, laneMap) ==
  IF i > Len(evts) THEN [laneMap |-> laneMap, laneCount |-> Len(laneEnds)]
  ELSE LET evt  == evts[i]
           lane == FirstFreeLane(laneEnds, evt.start, 0)
           ends == IF lane = Len(laneEnds)
                     THEN Append(laneEnds, evt.end)
                     ELSE [laneEnds EXCEPT ![lane + 1] = evt.end]
       IN  AssignLanesFrom(evts, i + 1, ends, (evt.id :> lane) @@ laneMap)

assignLanes(evts) == AssignLanesFrom(evts, 1, <<>>, <<>>)

(***************************************************************************)
(* Lane assignment, portrait component.                                    *)
(***************************************************************************)
\* Mutant: the expiry test inverted (>= for <=), so the entries still running
\* are the ones removed.
ExpireInverted(active, start) == SelectSeq(active, LAMBDA a : ~(a.end >= start))

\* active.splice(i, 1) for every entry with end <= e.start
Expire(active, start) == SelectSeq(active, LAMBDA a : ~(a.end <= start))

\* Mutant: the column above every column in use, which never goes back to a
\* column that has become free below one still held.
FirstUnusedAbove(used, col) ==
  IF used = {} THEN col ELSE 1 + CHOOSE m \in used : \A u \in used : u <= m

RECURSIVE FirstUnused(_, _)
FirstUnused(used, col) == IF col \in used THEN FirstUnused(used, col + 1) ELSE col

RECURSIVE AssignColumnsFrom(_, _, _, _)
AssignColumnsFrom(evts, i, active, out) ==
  IF i > Len(evts) THEN out
  ELSE LET e    == evts[i]
           kept == Expire(active, e.start)
           used == { kept[k].col : k \in 1..Len(kept) }
           col  == FirstUnused(used, 0)
       IN  AssignColumnsFrom(evts, i + 1, Append(kept, [end |-> e.end, col |-> col]),
                             (e.id :> col) @@ out)

assignOverlapColumns(evts) == AssignColumnsFrom(evts, 1, <<>>, <<>>)

(***************************************************************************)
(* Density summary (portrait file).                                        *)
(***************************************************************************)
Max(a, b) == IF a >= b THEN a ELSE b

Min(a, b) == IF a <= b THEN a ELSE b

\* s[lo] + ... + s[hi]
RECURSIVE SumRange(_, _, _)
SumRange(s, lo, hi) ==
  IF lo > hi THEN 0
  ELSE IF lo = hi THEN s[lo]
  ELSE LET mid == (lo + hi) \div 2
       IN  SumRange(s, lo, mid) + SumRange(s, mid + 1, hi)

SumSeq(s) == SumRange(s, 1, Len(s))

\* Math.max(...s); of no arguments it is -Infinity
MaxSeq(s) ==
  IF Len(s) = 0 THEN NegInfinity
  ELSE CHOOSE m \in { s[k] : k \in 1..Len(s) } : \A k \in 1..Len(s) : s[k] <= m

\* Mutant: the bucket count without its floor of one.
BucketCountNoFloor(ds, de, bucketMinutes) == CeilDiv(de - ds, bucketMinutes)

\* const n = Math.max(1, Math.ceil(total / bucketMinutes))
BucketCount(ds, de, bucketMinutes) == Max(1, CeilDiv(de - ds, bucketMinutes))

\* Mutant: the overlap measured from the bucket's start, not from the later of
\* the event's and the bucket's start.
BucketOverlapFromBucketStart(s, en, bStart, bEnd) == Max(0, Min(en, bEnd) - bStart)

\* Math.max(0, Math.min(en, bEnd) - Math.max(s, bStart))
BucketOverlap(s, en, bStart, bEnd) == Max(0, Min(en, bEnd) - Max(s, bStart))

\* What the inner loop adds to each bucket for one event (0-based bucket i is
\* element i + 1).
EventOverlaps(e, ds, de, bucketMinutes) ==
  LET total    == de - ds
      n        == BucketCount(ds, de, bucketMinutes)
      s        == Max(0, e.start - ds)
      en       == Min(total, e.end - ds)
      startIdx == FloorDiv(s, bucketMinutes)
      endIdx   == CeilDiv(en, bucketMinutes)
  IN  [k \in 1..n |->
         IF en <= s THEN 0
         ELSE IF startIdx <= k - 1 /\ k - 1 < endIdx
           THEN BucketOverlap(s, en, (k - 1) * bucketMinutes, k * bucketMinutes)
           ELSE 0]

RECURSIVE FillBuckets(_, _, _, _, _, _)
FillBuckets(evs, i, buckets, ds, de, bucketMinutes) ==
  IF i > Len(evs) THEN buckets
  ELSE LET add == EventOverlaps(evs[i], ds, de, bucketMinutes)
       IN  FillBuckets(evs, i + 1, [k \in 1..Len(buckets) |-> buckets[k] + add[k]],
                       ds, de, bucketMinutes)

\* Mutant: maxBucket as the largest bucket, without its floor of one.
computeDensityBucketsNoFloor(evs, ds, de, bucketMinutes) ==
  LET n       == BucketCount(ds, de, bucketMinutes)
      buckets == FillBuckets(evs, 1, [k \in 1..n |-> 0], ds, de, bucketMinutes)
  IN  [buckets |-> buckets, maxBucket |-> MaxSeq(buckets)]

computeDensityBuckets(evs, ds, de, bucketMinutes) ==
  LET n       == BucketCount(ds, de, bucketMinutes)
      buckets == FillBuckets(evs, 1, [k \in 1..n |-> 0], ds, de, bucketMinutes)
  IN  [buckets |-> buckets, maxBucket |-> Max(1, MaxSeq(buckets))]

(***************************************************************************)
(* Label columns (portrait).                                               *)
(***************************************************************************)
RECURSIVE ClustersFrom(_, _, _, _, _, _, _)
ClustersFrom(sorted, i, clusters, cur, curBottom, boxH, minGap) ==
  IF i > Len(sorted)
    THEN IF Len(cur) # 0 THEN Append(clusters, cur) ELSE clusters
  ELSE LET it == sorted[i]
       IN  IF Len(cur) = 0
             THEN ClustersFrom(sorted, i + 1, clusters, <<it>>,
                               Plus(it.desiredTop, boxH), boxH, minGap)
           ELSE IF Lt(it.desiredTop, Plus(curBottom, minGap))
             THEN ClustersFrom(sorted, i + 1, clusters, Append(cur, it),
                               MathMax(curBottom, Plus(it.desiredTop, boxH)), boxH, minGap)
             ELSE ClustersFrom(sorted, i + 1, Append(clusters, cur), <<it>>,
                               Plus(it.desiredTop, boxH), boxH, minGap)

LabelClusters(items, boxH, minGap) ==
  ClustersFrom(ArraySort(items, "desiredTop"), 1, <<>>, <<>>, NegInfinity, boxH, minGap)

\* Mutant: the columns of a cluster counted upwards from its first label.
ClusterColumnAscending(k, idx) == idx

\* const col = k - 1 - idx
ClusterColumn(k, idx) == k - 1 - idx

RECURSIVE ColMapFrom(_, _, _)
ColMapFrom(clusters, c, colMap) ==
  IF c > Len(clusters) THEN colMap
  ELSE LET cluster == clusters[c]
           k       == Len(cluster)
           cols    == [id \in { cluster[j].id : j \in 1..k } |->
                         ClusterColumn(k, (CHOOSE j \in 1..k : cluster[j].id = id) - 1)]
       IN  ColMapFrom(clusters, c + 1, cols @@ colMap)

assignLabelColumnsTop(items, boxH, minGap) ==
  ColMapFrom(LabelClusters(items, boxH, minGap), 1, <<>>)

(***************************************************************************)
(* Portrait component: constants.                                          *)
(***************************************************************************)
PORTRAIT_DISPLAY_H == 800

PADDING_Y == 24

gapPx == 2

LABEL_LINE_H == 11

LABEL_BOX_H == LABEL_LINE_H * 2 + 4

LABEL_MIN_GAP == 4

DENSITY_BUCKET_MINUTES == 10

TICK_SHIFT == 7

axisX == 0

labelOffsetLeft == 28

labelColGap == 10

labelColWidth == 160

textOffset == -3

\* a + b for two JavaScript numbers
Add(a, b) ==
  IF IsNaN(a) \/ IsNaN(b) THEN NaN
  ELSE IF IsFinite(a) /\ IsFinite(b) THEN a + b
  ELSE IF IsFinite(b) THEN a
  ELSE IF IsFinite(a) THEN b
  ELSE IF a = b THEN a ELSE NaN

\* Math.round(m * pxPerMin), pxPerMin = (DISPLAY_H - PADDING_Y * 2) / total
PortraitPx(m, ds, de) == RoundScaled(m, PORTRAIT_DISPLAY_H - PADDING_Y * 2, de - ds)

\* const height = Math.floor(total * pxPerMin)
PortraitHeight(ds, de) ==
  IF de - ds = 0 THEN NaN ELSE PORTRAIT_DISPLAY_H - PADDING_Y * 2

\* for (let m = Math.ceil(dayStart / 60) * 60; m <= dayEnd; m += 60) hours.push(m)
RECURSIVE HoursFrom(_, _)
HoursFrom(m, de) == IF m <= de THEN <<m>> \o HoursFrom(m + 60, de) ELSE <<>>

Hours(ds, de) == HoursFrom(CeilDiv(ds, 60) * 60, de)

(***************************************************************************)
(* Portrait component: tick ranges and their deconfliction.                *)
(***************************************************************************)
RawYRanges(evts, ds, de) ==
  [i \in 1..Len(evts) |->
     [id |-> evts[i].id,
      y1 |-> PortraitPx(evts[i].start - ds, ds, de),
      y2 |-> PortraitPx(evts[i].end - ds, ds, de)]]

\* Math.abs(cur.y1 - prev.y2) <= 0.5
Abuts(prevR, curR) ==
  LET d == MathAbs(Minus(curR.y1, prevR.y2))
  IN  IsFinite(d) /\ 2 * d <= 1

RECURSIVE DeconflictFrom(_, _)
DeconflictFrom(yRanges, i) ==
  IF i > Len(yRanges) THEN yRanges
  ELSE IF Abuts(yRanges[i - 1], yRanges[i])
    THEN DeconflictFrom(
           [yRanges EXCEPT ![i - 1].y2 = Plus(@, -(gapPx \div 2)),
                           ![i].y1     = Plus(@, gapPx \div 2)],
           i + 1)
    ELSE DeconflictFrom(yRanges, i + 1)

YRanges(evts, ds, de) == DeconflictFrom(RawYRanges(evts, ds, de), 2)

(***************************************************************************)
(* Portrait component: vertical resolution of the labels of one column.    *)
(***************************************************************************)
\* let t = Math.max(desired, lastBottom + 2); t = Math.min(t, height - LABEL_BOX_H)
LabelTop(desired, lastBottom, height) ==
  MathMin(MathMax(desired, Plus(lastBottom, 2)), Plus(height, -LABEL_BOX_H))

RECURSIVE ResolveColumn(_, _, _, _, _)
ResolveColumn(arr, i, lastBottom, height, labelMap) ==
  IF i > Len(arr) THEN labelMap
  ELSE LET it == arr[i]
           t  == LabelTop(labelMap[it.id], lastBottom, height)
       IN  ResolveColumn(arr, i + 1, Plus(t, LABEL_BOX_H), height,
                         [labelMap EXCEPT ![it.id] = t])

RECURSIVE ResolveColumns(_, _, _, _, _)
ResolveColumns(labelItems, labelCols, cols, height, labelMap) ==
  IF cols = {} THEN labelMap
  ELSE LET col == CHOOSE c \in cols : \A d \in cols : c <= d
           arr == ArraySort(SelectSeq(labelItems, LAMBDA it : labelCols[it.id] = col),
                            "desiredTop")
       IN  ResolveColumns(labelItems, labelCols, cols \ {col}, height,
                          ResolveColumn(arr, 1, NegInfinity, height, labelMap))

LabelItems(evts, yRanges) ==
  [i \in 1..Len(evts) |-> [id |-> evts[i].id, desiredTop |-> yRanges[i].y1]]

LabelTops(labelItems, labelCols, height) ==
  ResolveColumns(labelItems, labelCols,
                 { labelCols[labelItems[i].id] : i \in 1..Len(labelItems) },
                 height,
                 [id \in { labelItems[i].id : i \in 1..Len(labelItems) } |->
                    labelItems[CHOOSE i \in 1..Len(labelItems) :
                                 labelItems[i].id = id].desiredTop])

(***************************************************************************)
(* Portrait component: the rendered scene.                                 *)
(***************************************************************************)
PortraitHourMarks(ds, de) ==
  LET hours  == Hours(ds, de)
      height == PortraitHeight(ds, de)
  IN  [i \in 1..Len(hours) |->
         LET y     == PortraitPx(hours[i] - ds, ds, de)
             yHalf == Add(y, PortraitPx(30, ds, de))
         IN  [m |-> hours[i], labelTop |-> Plus(y, -6), y |-> y,
              yHalf |-> yHalf, showHalf |-> Lt(yHalf, height)]]

\* Mutant: the marker only strictly inside the window.
PortraitNowMarkerStrict(nowMin, ds, de) ==
  IF nowMin > ds /\ nowMin < de
    THEN <<[cx |-> axisX, cy |-> PortraitPx(nowMin - ds, ds, de)]>>
    ELSE <<>>

\* if (nowMin >= dayStart && nowMin <= dayEnd) return <circle ... />
PortraitNowMarker(nowMin, ds, de) ==
  IF nowMin >= ds /\ nowMin <= de
    THEN <<[cx |-> axisX, cy |-> PortraitPx(nowMin - ds, ds, de)]>>
    ELSE <<>>

\* points: `${i},${23 - (v / Math.max(1, maxBucket)) * 20}`, the ordinate kept
\* as the fraction num / den
DensityPoints(buckets, maxBucket) ==
  [k \in 1..Len(buckets) |->
     [x |-> k - 1,
      num |-> 23 * Max(1, maxBucket) - buckets[k] * 20,
      den |-> Max(1, maxBucket)]]

PortraitTicks(evts, yRanges, columns, labelCols) ==
  [i \in 1..Len(evts) |->
     LET e == evts[i]
     IN  [id |-> e.id, col |-> columns[e.id],
          tickX |-> axisX + columns[e.id] * TICK_SHIFT,
          y1 |-> yRanges[i].y1, y2 |-> yRanges[i].y2,
          labelLeft |-> labelOffsetLeft + labelCols[e.id] * (labelColWidth + labelColGap)]]

PortraitLabels(evts, labelCols, labelMap) ==
  [i \in 1..Len(evts) |->
     LET e == evts[i]
     IN  [id |-> e.id, col |-> labelCols[e.id],
          left |-> labelOffsetLeft + labelCols[e.id] * (labelColWidth + labelColGap),
          top |-> labelMap[e.id],
          cssTop |-> Plus(labelMap[e.id], textOffset)]]

PortraitLayout(evs, ds, de, sd) ==
  LET height     == PortraitHeight(ds, de)
      evts       == SortedEvts(evs)
      yRanges    == YRanges(evts, ds, de)
      labelItems == LabelItems(evts, yRanges)
      labelCols  == assignLabelColumnsTop(labelItems, LABEL_BOX_H, LABEL_MIN_GAP)
      labelMap   == LabelTops(labelItems, labelCols, height)
      columns    == assignOverlapColumns(evts)
      density    == computeDensityBuckets(evts, ds, de, DENSITY_BUCKET_MINUTES)
  IN  [view      |-> "portrait",
       height    |-> height,
       evts      |-> evts,
       hours     |-> PortraitHourMarks(ds, de),
       ticks     |-> PortraitTicks(evts, yRanges, columns, labelCols),
       labels    |-> PortraitLabels(evts, labelCols, labelMap),
       buckets   |-> density.buckets,
       maxBucket |-> density.maxBucket,
       density   |-> IF sd THEN DensityPoints(density.buckets, density.maxBucket)
                          ELSE <<>>]

\* The clock and the "now" marker come from new Date() at render time.
PortraitClock(now, ds, de) ==
  [minutes   |-> now.minutes,
   dotHigh   |-> now.seconds >= 30,
   nowMarker |-> PortraitNowMarker(now.minutes, ds, de)]

\* Mutant: events that have ended by now are left out of the layout.
PortraitSceneUpcomingOnly(evs, ds, de, sd, now) ==
  [layout |-> PortraitLayout(SelectSeq(evs, LAMBDA e : e.end > now.minutes), ds, de, sd),
   clock  |-> PortraitClock(now, ds, de)]

PortraitScene(evs, ds, de, sd, now) ==
  [layout |-> PortraitLayout(evs, ds, de, sd), clock |-> PortraitClock(now, ds, de)]

(***************************************************************************)
(* Landscape component.                                                    *)
(***************************************************************************)
DISPLAY_W == 800

DISPLAY_H == 480

PADDING_X == 36

INFO_HEIGHT == 100

FOOTER_HEIGHT == 50

TIMELINE_HEIGHT == DISPLAY_H - INFO_HEIGHT - FOOTER_HEIGHT

LANE_HEIGHT == 40

LANE_GAP == 12

GRID_TOP_OFFSET == 90

GRID_BOTTOM_PADDING == 34

\* A horizontal coordinate m * pxPerMinute + k, pxPerMinute = timelineWidth /
\* totalMinutes, kept as the fraction num / den with den = totalMinutes.  A
\* window of zero length makes pxPerMinute Infinity: den is 0 and num is the
\* sign (1: Infinity, -1: -Infinity, 0: NaN).
LandscapeX(m, k, ds, de) ==
  LET totalMinutes  == de - ds
      timelineWidth == DISPLAY_W - PADDING_X * 2
  IN  IF totalMinutes = 0
        THEN [num |-> IF m > 0 THEN 1 ELSE IF m < 0 THEN -1 ELSE 0, den |-> 0]
        ELSE [num |-> m * timelineWidth + k * totalMinutes, den |-> totalMinutes]

FracIsFinite(x) == x.den # 0

\* Math.max(4, x) for a finite fraction x with a positive denominator
FracMax4(x) == IF x.num >= 4 * x.den THEN x ELSE [num |-> 4 * x.den, den |-> x.den]

LandscapeHourMarks(ds, de) ==
  LET hours == Hours(ds, de)
  IN  [i \in 1..Len(hours) |->
         [m |-> hours[i],
          left |-> LandscapeX(hours[i] - ds, 0, ds, de),
          labelLeft |-> LandscapeX(hours[i] - ds, -20, ds, de)]]

\* const laneAreaTop = Math.max(0, (usableHeight - lanesHeight) / 2)
LaneAreaTop(laneCount) ==
  LET lanesUsed    == IF laneCount = 0 THEN 1 ELSE laneCount
      lanesHeight  == lanesUsed * LANE_HEIGHT + (lanesUsed - 1) * LANE_GAP
      usableHeight == Max(0, TIMELINE_HEIGHT - GRID_TOP_OFFSET - GRID_BOTTOM_PADDING)
  IN  Max(0, (usableHeight - lanesHeight) \div 2)

\* One event's segment, or nothing when its interval clamped to the window is
\* empty (the .map(...).filter(Boolean) of the component).
Segment(evt, laneMap, laneCount, ds, de) ==
  LET start == Max(evt.start, ds)
      end   == Min(evt.end, de)
  IN  IF end <= start THEN <<>>
      ELSE <<[id    |-> evt.id,
              x     |-> LandscapeX(start - ds, 1, ds, de),
              width |-> FracMax4(LandscapeX(end - start, -2, ds, de)),
              y     |-> LaneAreaTop(laneCount)
                          + laneMap[evt.id] * (LANE_HEIGHT + LANE_GAP)]>>

RECURSIVE Segments(_, _, _, _, _, _)
Segments(evts, i, laneMap, laneCount, ds, de) ==
  IF i > Len(evts) THEN <<>>
  ELSE Segment(evts[i], laneMap, laneCount, ds, de)
         \o Segments(evts, i + 1, laneMap, laneCount, ds, de)

LandscapeLayout(evs, ds, de) ==
  LET evts  == SortedEvts(evs)
      lanes == assignLanes(evts)
  IN  [view      |-> "landscape",
       evts      |-> evts,
       laneMap   |-> lanes.laneMap,
       laneCount |-> lanes.laneCount,
       hours     |-> LandscapeHourMarks(ds, de),
       segments  |-> Segments(evts, 1, lanes.laneMap, lanes.laneCount, ds, de)]

\* The "Now" and "Next" lists, the clock, and the current-time marker.
LandscapeClock(evs, ds, de, now) ==
  LET evts          == SortedEvts(evs)
      nowMinutes    == now.minutes
      nowEvents     == SelectSeq(evts, LAMBDA e : e.start <= nowMinutes /\ e.end > nowMinutes)
      nextThreshold == IF Len(nowEvents) # 0
                         THEN MaxSeq([i \in 1..Len(nowEvents) |-> nowEvents[i].end])
                         ELSE nowMinutes
      futureEvents  == SelectSeq(evts, LAMBDA e : e.start >= nextThreshold)
      nextEvents    == IF Len(futureEvents) # 0
                         THEN SelectSeq(futureEvents,
                                        LAMBDA e : e.start = futureEvents[1].start)
                         ELSE <<>>
      showCurrent   == nowMinutes >= ds /\ nowMinutes <= de
  IN  [minutes    |-> nowMinutes,
       dotHigh    |-> now.seconds >= 30,
       nowEvents  |-> nowEvents,
       nextEvents |-> nextEvents,
       nowMarker  |-> IF showCurrent
                        THEN <<[left |-> LandscapeX(nowMinutes - ds, 0, ds, de)]>>
                        ELSE <<>>]

LandscapeScene(evs, ds, de, now) ==
  [layout |-> LandscapeLayout(evs, ds, de), clock |-> LandscapeClock(evs, ds, de, now)]

(***************************************************************************)
(* Render server (part_008): fetching today's events.                      *)
(* A raw calendar item carries summary, location, start and end; start and *)
(* end are {dateTime}, {date} (an all-day event) or missing.  A time of    *)
(* day is kept as its minutes since midnight.  The en dashes in the where   *)
(* texts of SAMPLE_EVENTS are written as hyphens.                          *)
(***************************************************************************)
SAMPLE_EVENTS ==
  << [title |-> "Design Review",   where |-> "PA-Waverly",     start |-> 9 * 60,       end |-> 9 * 60 + 45],
     [title |-> "John / Matt",     where |-> "PA-University",  start |-> 11 * 60,      end |-> 11 * 60 + 30],
     [title |-> "Team Lunch",      where |-> "Cafeteria",      start |-> 13 * 60,      end |-> 14 * 60],
     [title |-> "Pickup visitor",  where |-> "PA-FrontDesk",   start |-> 13 * 60,      end |-> 13 * 60 + 15],
     [title |-> "Recruiting Sync", where |-> "PA-Cowper",      start |-> 13 * 60 + 45, end |-> 14 * 60 + 30],
     [title |-> "Dave / Matt",     where |-> "PA-Alma",        start |-> 16 * 60,      end |-> 16 * 60 + 30],
     [title |-> "Jennifer / Matt", where |-> "PA-Middlefield", start |-> 16 * 60 + 30, end |-> 17 * 60] >>

\* const EVENT_CACHE_TTL_MS = 2 * 60 * 1000
EVENT_CACHE_TTL_MS == 2 * 60 * 1000

\* The days a request may ask for (the start-of-day key of referenceDate).
Days == {1, 2}

\* Date.now() moves on by one of these between two requests.
ClockSteps == {EVENT_CACHE_TTL_MS - 1, EVENT_CACHE_TTL_MS}

DateTime(m) == [kind |-> "dateTime", minutes |-> m]

AllDay == [kind |-> "date", minutes |-> 0]

Missing == [kind |-> "none", minutes |-> 0]

RawStandup ==
  [summary |-> "Standup", location |-> "Room 1", start |-> DateTime(540), end |-> DateTime(555)]

RawReview ==
  [summary |-> "Review", location |-> "", start |-> DateTime(540), end |-> DateTime(555)]

RawAllDay == [summary |-> "", location |-> "", start |-> AllDay, end |-> Missing]

\* What service.events.list resolves to for one calendar (response.data.items).
Responses == { <<>>, <<RawAllDay, RawStandup, RawReview>> }

\* One service.events.list call: it rejects, or resolves with items.
ApiOutcomes ==
  { [throws |-> FALSE, items |-> r] : r \in Responses } \cup { [throws |-> TRUE, items |-> <<>>] }

\* parseDate(value): <<minutes since midnight of the Date>>, or <<>> for null
parseDate(value) ==
  IF value.kind = "dateTime" THEN <<value.minutes>>
  ELSE IF value.kind = "date" THEN <<0>>
  ELSE <<>>

\* normalizeEvent(raw, fallbackStart): fallbackStart is the start of the day,
\* 0 minutes since midnight.  <<event>>, or <<>> for null.
normalizeEvent(raw, fallbackStart) ==
  LET start == IF parseDate(raw.start) # <<>> THEN parseDate(raw.start) ELSE fallbackStart
      end   == IF parseDate(raw.end) # <<>> THEN parseDate(raw.end) ELSE fallbackStart
  IN  IF start = <<>> \/ end = <<>> THEN <<>>
      ELSE << [title |-> IF raw.summary # "" THEN raw.summary ELSE "Untitled Event",
               where |-> raw.location,
               start |-> start[1],
               end   |-> end[1]] >>

RECURSIVE NormalizeItems(_, _)
NormalizeItems(items, i) ==
  IF i > Len(items) THEN <<>>
  ELSE normalizeEvent(items[i], <<0>>) \o NormalizeItems(items, i + 1)

\* The loop over calendarIds: [threw, calls, events] where calls counts the
\* service.events.list calls made up to and including one that throws.
RECURSIVE ListCalendars(_, _, _)
ListCalendars(responses, i, acc) ==
  IF i > Len(responses) THEN [threw |-> FALSE, calls |-> Len(responses), events |-> acc]
  ELSE IF responses[i].throws THEN [threw |-> TRUE, calls |-> i, events |-> acc]
  ELSE ListCalendars(responses, i + 1, acc \o NormalizeItems(responses[i].items, 1))

\* Mutant: the cache test without the comparison of the day keys.
CacheFreshAnyDay(cacheKey) ==
  /\ eventsCache.events # <<>>
  /\ clock - eventsCache.fetchedAt < EVENT_CACHE_TTL_MS

NullCache == [key |-> 0, fetchedAt |-> 0, events |-> <<>>]

\* The cache test at the head of fetchTodaysEvents.
CacheFresh(cacheKey) ==
  /\ eventsCache.events # <<>>
  /\ eventsCache.key = cacheKey
  /\ clock - eventsCache.fetchedAt < EVENT_CACHE_TTL_MS

\* Mutant: getCalendarService without the fs.existsSync test.
getCalendarServiceNoFileCheck ==
  IF credentialsPath = "" \/ Len(calendarIds) = 0
    THEN [service |-> FALSE, created |-> calendarService]
    ELSE [service |-> TRUE, created |-> TRUE]

\* getCalendarService(): [service, created]: whether a service is returned
\* (FALSE for null) and whether calendarService is set afterwards.
getCalendarService ==
  IF credentialsPath = "" \/ Len(calendarIds) = 0
    THEN [service |-> FALSE, created |-> calendarService]
  ELSE IF calendarService
    THEN [service |-> TRUE, created |-> TRUE]
  ELSE IF ~fileExists
    THEN [service |-> FALSE, created |-> FALSE]
  ELSE [service |-> TRUE, created |-> TRUE]

\* The server before any request; the render specifications leave it so.
ServerIdle ==
  /\ credentialsPath = ""
  /\ calendarIds = <<>>
  /\ fileExists = FALSE
  /\ calendarService = FALSE
  /\ eventsCache = NullCache
  /\ clock = 0
  /\ fetched = <<>>
  /\ lastGood = [d \in Days |-> <<>>]

(***************************************************************************)
(* Finding a browser (part_009).  A location is a directory and a file     *)
(* name; NoPath stands for an unset or empty path.  A PATH entry is a      *)
(* directory as written, with or without a trailing slash, or empty.       *)
(***************************************************************************)
Loc(d, n) == [dir |-> d, name |-> n]

NoPath == Loc("", "")

DEFAULT_ABSOLUTE_CANDIDATES ==
  << Loc("/usr/bin", "chromium-browser"),
     Loc("/usr/bin", "chromium"),
     Loc("/usr/bin", "chromium-headless-shell"),
     Loc("/usr/lib/chromium", "chromium-headless-shell"),
     Loc("/snap/bin", "chromium"),
     Loc("/usr/bin", "google-chrome"),
     Loc("/usr/bin", "google-chrome-stable") >>

DEFAULT_PATH_CANDIDATES ==
  << "chromium-browser", "chromium", "chromium-headless-shell",
     "google-chrome", "google-chrome-stable", "chrome" >>

Entry(d, slash) == [dir |-> d, slash |-> slash]

\* What the file system holds at a location: nothing, a directory, a file
\* without the execute bit, or an executable file.
Kinds == {"none", "dir", "file", "exec"}

KindOf(fs, loc) == IF loc \in DOMAIN fs THEN fs[loc] ELSE "none"

\* Mutant: isExecutable without the fs.accessSync(X_OK) test.
isExecutableAnyFile(fs, filePath) ==
  filePath # NoPath /\ KindOf(fs, filePath) \in {"file", "exec"}

\* isExecutable(filePath): statSync throws for nothing there, isFile() is
\* false for a directory, accessSync throws for a file one may not execute.
isExecutable(fs, filePath) ==
  IF filePath = NoPath THEN FALSE
  ELSE IF KindOf(fs, filePath) = "none" THEN FALSE
  ELSE IF KindOf(fs, filePath) = "dir" THEN FALSE
  ELSE IF KindOf(fs, filePath) = "file" THEN FALSE
  ELSE TRUE

\* path.join(entry, name): one location whether or not entry ends in a slash
pathJoin(entry, name) == Loc(entry.dir, name)

RECURSIVE JoinAll(_, _, _)
JoinAll(entries, candidates, k) ==
  IF k > Len(entries) THEN <<>>
  ELSE [j \in 1..Len(candidates) |-> pathJoin(entries[k], candidates[j])]
         \o JoinAll(entries, candidates, k + 1)

\* expandPathCandidates(envPath, candidates); envPath is the PATH split on the
\* delimiter, <<>> for an empty PATH
expandPathCandidates(envPath, candidates) ==
  IF envPath = <<>> THEN <<>>
  ELSE JoinAll(SelectSeq(envPath, LAMBDA e : e.dir # ""), candidates, 1)

\* The loop over searchOrder: [result, tested], result <<location>> or <<>>
\* for null, tested the locations handed to isExecutable, in order.
RECURSIVE SearchFrom(_, _, _, _, _)
SearchFrom(fs, searchOrder, i, seen, tested) ==
  IF i > Len(searchOrder) THEN [result |-> <<>>, tested |-> tested]
  ELSE IF searchOrder[i] \in seen THEN SearchFrom(fs, searchOrder, i + 1, seen, tested)
  ELSE IF isExecutable(fs, searchOrder[i])
    THEN [result |-> <<searchOrder[i]>>, tested |-> Append(tested, searchOrder[i])]
  ELSE SearchFrom(fs, searchOrder, i + 1, seen \cup {searchOrder[i]},
                  Append(tested, searchOrder[i]))

\* findSystemChromiumExecutable(options)
findSystemChromiumExecutable(fs, options) ==
  LET searchOrder == options.absoluteCandidates
                       \o expandPathCandidates(options.envPath, options.pathCandidates)
  IN  SearchFrom(fs, searchOrder, 1, {}, <<>>)

\* The options of a call without arguments: the default lists and the PATH.
DefaultSearch(envPath) ==
  [absoluteCandidates |-> DEFAULT_ABSOLUTE_CANDIDATES,
   pathCandidates     |-> DEFAULT_PATH_CANDIDATES,
   envPath            |-> envPath]

(***************************************************************************)
(* Launch options (part_008 buildLaunchOptions).  PUPPETEER_ARGS,          *)
(* PUPPETEER_LAUNCH_TIMEOUT_MS and PUPPETEER_DEBUG are taken as unset.     *)
(* args is kept as the list of the groups it is made of.                   *)
(***************************************************************************)
CustomShell == Loc("/opt/custom", "chromium-headless-shell")

AltChromium == Loc("/opt/alt", "chromium")

AltChrome == Loc("/opt/alt", "chrome")

BundledPath == Loc("/tmp", "chromium")

\* await chromium.executablePath(): it rejects, resolves to an empty path, or
\* resolves to the path of the unpacked binary.
BundledOutcomes ==
  { [throws |-> TRUE, path |-> NoPath],
    [throws |-> FALSE, path |-> NoPath],
    [throws |-> FALSE, path |-> BundledPath] }

Hosts ==
  [ platform                  : {"linux", "darwin"},
    arch                      : {"x64", "arm64"},
    bundledInstalled          : BOOLEAN,
    bundledPath               : BundledOutcomes,
    PUPPETEER_EXECUTABLE_PATH : {NoPath, CustomShell},
    CHROMIUM_PATH             : {NoPath, AltChromium},
    CHROME_PATH               : {NoPath, AltChrome},
    PUPPETEER_HEADLESS        : {"", "old", "false"},
    PUPPETEER_LIGHTWEIGHT     : {"", "1"},
    PATH                      : { <<>>, <<Entry("/opt/bin", FALSE)>> } ]

\* The file systems of the launch specification: a browser or nothing at
\* two of the locations the default search visits.
LaunchFiles ==
  [ {Loc("/usr/bin", "chromium-headless-shell"), Loc("/opt/bin", "chrome")}
      -> {"none", "exec"} ]

\* The module-level chromium: @sparticuz/chromium is required on Linux x64
\* only, and is null when the require fails.
Chromium(h) == h.platform = "linux" /\ h.arch = "x64" /\ h.bundledInstalled

\* PUPPETEER_EXECUTABLE_PATH || CHROMIUM_PATH || CHROME_PATH
EnvExecutable(h) ==
  IF h.PUPPETEER_EXECUTABLE_PATH # NoPath THEN h.PUPPETEER_EXECUTABLE_PATH
  ELSE IF h.CHROMIUM_PATH # NoPath THEN h.CHROMIUM_PATH
  ELSE h.CHROME_PATH

HeadlessMode(h) ==
  IF h.PUPPETEER_HEADLESS \in {"old", "true"} THEN "true"
  ELSE IF h.PUPPETEER_HEADLESS = "false" THEN "false"
  ELSE "new"

ForceLightweight(h) == h.PUPPETEER_LIGHTWEIGHT \in {"1", "true", "yes"}

\* The if (chromium && process.platform === "linux") block.
WithBundled(h, options) ==
  IF Chromium(h) /\ h.platform = "linux" /\ ~h.bundledPath.throws
    THEN [options EXCEPT
            !.executablePath  = IF h.bundledPath.path # NoPath THEN h.bundledPath.path ELSE @,
            !.args            = <<"chromium.args">>,
            !.defaultViewport = "chromium.defaultViewport",
            !.headless        = "chromium.headless"]
    ELSE options

\* if (!options.executablePath && envExecutable)
WithEnvExecutable(h, options) ==
  IF options.executablePath = NoPath /\ EnvExecutable(h) # NoPath
    THEN [options EXCEPT !.executablePath = EnvExecutable(h)]
    ELSE options

\* Mutant: the environment's executable wins over the one found before.
WithEnvExecutableFirst(h, options) ==
  IF EnvExecutable(h) # NoPath
    THEN [options EXCEPT !.executablePath = EnvExecutable(h)]
    ELSE options

\* if (!options.executablePath && process.platform === "linux")
WithSystemChromium(h, fs, options) ==
  LET systemChromium == findSystemChromiumExecutable(fs, DefaultSearch(h.PATH)).result
  IN  IF options.executablePath = NoPath /\ h.platform = "linux" /\ systemChromium # <<>>
        THEN [options EXCEPT !.executablePath = systemChromium[1]]
        ELSE options

\* if (forceLightweight || isHeadlessShell) options.args = [...args, ...lightweightArgs]
WithLightweight(h, options) ==
  LET isHeadlessShell == options.executablePath.name = "chromium-headless-shell"
  IN  IF ForceLightweight(h) \/ isHeadlessShell
        THEN [options EXCEPT !.args = Append(@, "lightweightArgs")]
        ELSE options

buildLaunchOptions(h, fs) ==
  LET options == [args |-> <<"defaultArgs">>, headless |-> HeadlessMode(h),
                  executablePath |-> NoPath, defaultViewport |-> "unset"]
  IN  WithLightweight(h,
        WithSystemChromium(h, fs,
          WithEnvExecutable(h,
            WithBundled(h, options))))

\* No browser work yet; the render and fetch specifications leave it so.
LaunchIdle ==
  /\ host = [platform |-> "linux", arch |-> "x64", bundledInstalled |-> FALSE,
             bundledPath |-> [throws |-> FALSE, path |-> NoPath],
             PUPPETEER_EXECUTABLE_PATH |-> NoPath, CHROMIUM_PATH |-> NoPath,
             CHROME_PATH |-> NoPath, PUPPETEER_HEADLESS |-> "",
             PUPPETEER_LIGHTWEIGHT |-> "", PATH |-> <<>>]
  /\ files = <<>>
  /\ search = DefaultSearch(<<>>)
  /\ found = <<>>
  /\ launch = <<>>

(***************************************************************************)
(* The renderer as a state machine.  A request carries the events, the     *)
(* window and showDensity; rendering it produces the scene.  scene and     *)
(* prev hold at most one scene each: the latest render of the request and  *)
(* the one before it.                                                      *)
(***************************************************************************)
TypeOK ==
  /\ events \in Seq(EventPool)
  /\ <<dayStart, dayEnd>> \in Windows
  /\ showDensity \in BOOLEAN
  /\ Len(scene) <= 1
  /\ Len(prev) <= 1
  /\ credentialsPath \in {"", "creds.json"}
  /\ Len(calendarIds) \in 0..MaxCalendars
  /\ fileExists \in BOOLEAN
  /\ calendarService \in BOOLEAN
  /\ clock \in 0..MaxClock
  /\ Len(fetched) <= 1

\* showDensity is a prop of the portrait component only; it defaults to false.
\* A task is one run of a job's function: a job handed to serialize, or the
\* warmup render.  st is where the task is (queued, running, resolved,
\* rejected; "off" for a warmup that was never scheduled), pc the await it is
\* suspended at, awaits the promise it took from pagePromise, page the page it
\* uses, failedAt the call that threw, close the outcome of page.close() in
\* resetPage, runs how often the function was called, and chain the state of
\* the promise serialize stored in renderChain for the job.
Task(route, st) ==
  [route |-> route, st |-> st, pc |-> "", awaits |-> 0, page |-> 0, failedAt |-> "",
   close |-> "", runs |-> 0, chain |-> "pending"]

NoBrowser == [st |-> "undefined", id |-> 0]

\* The server after start-up with no request received and no warmup scheduled.
ServeIdle ==
  /\ jobs = <<>>
  /\ warmup = Task("warmup", "off")
  /\ browserPromise = NoBrowser
  /\ pagePromise = 0
  /\ promises = <<>>

InitWith(maxEvents) ==
  /\ events \in SeqsUpTo(EventPool, maxEvents)
  /\ \E w \in Windows : dayStart = w[1] /\ dayEnd = w[2]
  /\ showDensity = FALSE
  /\ scene = <<>>
  /\ prev = <<>>
  /\ ServerIdle
  /\ ServeIdle
  /\ LaunchIdle

Init == InitWith(MaxEvents)

RenderPortrait(sd, now) ==
  /\ scene = <<>>
  /\ showDensity' = sd
  /\ scene' = <<PortraitScene(events, dayStart, dayEnd, sd, now)>>
  /\ UNCHANGED <<events, dayStart, dayEnd, prev>>
  /\ UNCHANGED <<fetchVars, launchVars, serveVars>>

RenderLandscape(now) ==
  /\ scene = <<>>
  /\ scene' = <<LandscapeScene(events, dayStart, dayEnd, now)>>
  /\ UNCHANGED <<events, dayStart, dayEnd, showDensity, prev>>
  /\ UNCHANGED <<fetchVars, launchVars, serveVars>>

Next ==
  \E now \in NowSet :
    \/ \E sd \in BOOLEAN : RenderPortrait(sd, now)
    \/ RenderLandscape(now)

Spec == Init /\ [][Next]_vars

(***************************************************************************)
(* Rendering the same request again (the refresh loop asks for a frame     *)
(* every 30 seconds): prev keeps the scene of the render before.           *)
(***************************************************************************)
InitDet == InitWith(MaxEventsDet)

RerenderPortrait(now) ==
  /\ scene # <<>>
  /\ prev = <<>>
  /\ scene[1].layout.view = "portrait"
  /\ prev' = scene
  /\ scene' = <<PortraitScene(events, dayStart, dayEnd, showDensity, now)>>
  /\ UNCHANGED <<events, dayStart, dayEnd, showDensity>>
  /\ UNCHANGED <<fetchVars, launchVars, serveVars>>

RerenderLandscape(now) ==
  /\ scene # <<>>
  /\ prev = <<>>
  /\ scene[1].layout.view = "landscape"
  /\ prev' = scene
  /\ scene' = <<LandscapeScene(events, dayStart, dayEnd, now)>>
  /\ UNCHANGED <<events, dayStart, dayEnd, showDensity>>
  /\ UNCHANGED <<fetchVars, launchVars, serveVars>>

NextDet ==
  \E now \in NowSet :
    \/ \E sd \in BOOLEAN : RenderPortrait(sd, now)
    \/ RenderLandscape(now)
    \/ RerenderPortrait(now)
    \/ RerenderLandscape(now)

SpecDet == InitDet /\ [][NextDet]_vars

(***************************************************************************)
(* The server fetching events.  Every route runs fetchTodaysEvents inside  *)
(* serialize, one job at a time, so a fetch is one step.  Between requests *)
(* time passes and the credentials file may appear or disappear.           *)
(***************************************************************************)
InitFetch ==
  /\ events = <<>>
  /\ dayStart = 480 /\ dayEnd = 1260
  /\ showDensity = FALSE
  /\ scene = <<>>
  /\ prev = <<>>
  /\ credentialsPath \in {"", "creds.json"}
  /\ calendarIds \in { [i \in 1..n |-> i] : n \in 0..MaxCalendars }
  /\ fileExists \in BOOLEAN
  /\ calendarService = FALSE
  /\ eventsCache = NullCache
  /\ clock = 0
  /\ fetched = <<>>
  /\ lastGood = [d \in Days |-> <<>>]
  /\ LaunchIdle
  /\ ServeIdle

\* What a fetch saw when it started.
Seen(day) ==
  [day |-> day, cacheFresh |-> CacheFresh(day), hadService |-> calendarService,
   fileExists |-> fileExists, at |-> clock, cache |-> eventsCache]

\* fetchTodaysEvents(referenceDate): day is the start-of-day key of
\* referenceDate, responses[i] the outcome of the call for calendarIds[i].
fetchTodaysEvents(day, responses) ==
  IF CacheFresh(day)
    THEN /\ fetched' = <<Seen(day) @@ [events |-> eventsCache.events[1], source |-> "cache",
                                       calls |-> 0, threw |-> FALSE]>>
         /\ UNCHANGED <<calendarService, eventsCache, lastGood>>
  ELSE IF ~getCalendarService.service
    THEN /\ fetched' = <<Seen(day) @@ [events |-> SAMPLE_EVENTS, source |-> "sample",
                                       calls |-> 0, threw |-> FALSE]>>
         /\ calendarService' = getCalendarService.created
         /\ UNCHANGED <<eventsCache, lastGood>>
  ELSE LET listed == ListCalendars(responses, 1, <<>>)
           sorted == ArraySort(listed.events, "fetched")
       IN  /\ calendarService' = getCalendarService.created
           /\ IF listed.threw
                THEN /\ fetched' = <<Seen(day) @@ [events |-> SAMPLE_EVENTS, source |-> "sample",
                                                   calls |-> listed.calls, threw |-> TRUE]>>
                     /\ UNCHANGED <<eventsCache, lastGood>>
                ELSE /\ fetched' = <<Seen(day) @@ [events |-> sorted, source |-> "live",
                                                   calls |-> listed.calls, threw |-> FALSE]>>
                     /\ eventsCache' = [key |-> day, fetchedAt |-> clock, events |-> <<sorted>>]
                     /\ lastGood' = [lastGood EXCEPT ![day] = <<sorted>>]

Fetch(day, responses) ==
  /\ fetchTodaysEvents(day, responses)
  /\ UNCHANGED <<renderVars, credentialsPath, calendarIds, fileExists, clock>>
  /\ UNCHANGED <<launchVars, serveVars>>

TimePasses(d) ==
  /\ clock + d <= MaxClock
  /\ clock' = clock + d
  /\ UNCHANGED <<renderVars, credentialsPath, calendarIds, fileExists, calendarService,
                 eventsCache, fetched, lastGood>>
  /\ UNCHANGED <<launchVars, serveVars>>

CredentialsFileChanges ==
  /\ fileExists' = ~fileExists
  /\ UNCHANGED <<renderVars, credentialsPath, calendarIds, calendarService, eventsCache,
                 clock, fetched, lastGood>>
  /\ UNCHANGED <<launchVars, serveVars>>

NextFetch ==
  \/ \E day \in Days : \E responses \in [1..Len(calendarIds) -> ApiOutcomes] :
       Fetch(day, responses)
  \/ \E d \in ClockSteps : TimePasses(d)
  \/ CredentialsFileChanges

SpecFetch == InitFetch /\ [][NextFetch]_vars

(***************************************************************************)
(* Building the launch options on a host (getBrowser calls                 *)
(* buildLaunchOptions before puppeteer.launch).                            *)
(***************************************************************************)
InitLaunch ==
  /\ events = <<>>
  /\ dayStart = 480 /\ dayEnd = 1260
  /\ showDensity = FALSE
  /\ scene = <<>>
  /\ prev = <<>>
  /\ ServerIdle
  /\ ServeIdle
  /\ host \in Hosts
  /\ files \in LaunchFiles
  /\ search = DefaultSearch(host.PATH)
  /\ found = <<>>
  /\ launch = <<>>

BuildLaunchOptions ==
  /\ launch = <<>>
  /\ launch' = <<buildLaunchOptions(host, files)>>
  /\ UNCHANGED <<renderVars, fetchVars, serveVars, host, files, search, found>>

NextLaunch == BuildLaunchOptions

SpecLaunch == InitLaunch /\ [][NextLaunch]_vars

(***************************************************************************)
(* Calling findSystemChromiumExecutable with options, as its tests do.     *)
(***************************************************************************)
SearchLocations ==
  { Loc("/usr/bin", "chromium"), Loc("/opt/bin", "chromium"),
    Loc("/opt/bin", "chrome"), Loc("/usr/bin", "chromium-headless-shell") }

SearchOptions ==
  [ absoluteCandidates :
      { <<>>,
        <<Loc("/usr/bin", "chromium"), Loc("/usr/bin", "chromium-headless-shell")>>,
        <<Loc("/usr/bin", "chromium-headless-shell"), Loc("/usr/bin", "chromium"),
          Loc("/usr/bin", "chromium-headless-shell")>>,
        DEFAULT_ABSOLUTE_CANDIDATES },
    pathCandidates :
      { <<"chromium">>, <<"chromium", "chrome">>, DEFAULT_PATH_CANDIDATES },
    envPath :
      { <<>>,
        <<Entry("", FALSE)>>,
        <<Entry("/opt/bin", FALSE), Entry("/nonexistent", FALSE)>>,
        <<Entry("/usr/bin", TRUE), Entry("", FALSE), Entry("/opt/bin", FALSE),
          Entry("/usr/bin", FALSE)>> } ]

InitFind ==
  /\ events = <<>>
  /\ dayStart = 480 /\ dayEnd = 1260
  /\ showDensity = FALSE
  /\ scene = <<>>
  /\ prev = <<>>
  /\ ServerIdle
  /\ ServeIdle
  /\ host \in { h \in Hosts : h.platform = "linux" /\ h.arch = "x64" /\ ~h.bundledInstalled
                              /\ h.bundledPath.throws
                              /\ EnvExecutable(h) = NoPath /\ h.PUPPETEER_HEADLESS = ""
                              /\ h.PUPPETEER_LIGHTWEIGHT = "" /\ h.PATH = <<>> }
  /\ files \in [SearchLocations -> Kinds]
  /\ search \in SearchOptions
  /\ found = <<>>
  /\ launch = <<>>

FindSystemChromium ==
  /\ found = <<>>
  /\ found' = <<findSystemChromiumExecutable(files, search)>>
  /\ UNCHANGED <<renderVars, fetchVars, serveVars, host, files, search, launch>>

NextFind == FindSystemChromium

SpecFind == InitFind /\ [][NextFind]_vars

(***************************************************************************)
(* Reading a rendered scene.                                               *)
(***************************************************************************)
Rendered == scene # <<>>

Portrait == Rendered /\ scene[1].layout.view = "portrait"

Landscape == Rendered /\ scene[1].layout.view = "landscape"

Layout == scene[1].layout

Evts == scene[1].layout.evts

\* The lane the scene gives the event at position i of evts.
LaneOf(i) ==
  IF Layout.view = "portrait" THEN Layout.ticks[i].col ELSE Layout.laneMap[Evts[i].id]

LanesUsed == { LaneOf(i) : i \in 1..Len(Evts) }

Overlap(a, b) == a.start < b.end /\ b.start < a.end

\* The interval of e clamped to the window is empty.
ClampedEmpty(e) == Min(e.end, dayEnd) <= Max(e.start, dayStart)

ClampedDuration(e) == Max(0, Min(e.end, dayEnd) - Max(e.start, dayStart))

InsideWindow(e) == dayStart <= e.start /\ e.start < e.end /\ e.end <= dayEnd

(***************************************************************************)
(* C1.  No-overlap: in every rendered scene (portrait: assignOverlapColumns,*)
(* landscape: assignLanes, both on the events sorted by (start, end)), two  *)
(* events a, b with a.start < b.end and b.start < a.end have different     *)
(* lanes.                                                                  *)
(***************************************************************************)
C1_NoOverlapInLane ==
  Rendered =>
    \A i, j \in 1..Len(Evts) :
      (i # j /\ Overlap(Evts[i], Evts[j])) => LaneOf(i) # LaneOf(j)

\* Three events: two that overlap (in different lanes) and a later one that
\* takes up the lane the first has left.
C1_Witness ==
  /\ Portrait
  /\ Len(Evts) = 3
  /\ Overlap(Evts[1], Evts[2]) /\ LaneOf(1) # LaneOf(2)
  /\ ~Overlap(Evts[1], Evts[3]) /\ LaneOf(3) = LaneOf(1)

(***************************************************************************)
(* C2.  Minimality, as claimed: the number of distinct lanes a rendered    *)
(* scene uses equals the largest number of events active at one instant    *)
(* (an event is active at t when start <= t < end).  The code lays out     *)
(* zero-length events too, and each takes a lane.                          *)
(***************************************************************************)
ActiveAt(t) == { i \in 1..Len(Evts) : Evts[i].start <= t /\ t < Evts[i].end }

\* The largest number of events active at one instant; a maximum is reached
\* at some event's start.
MaxActive ==
  LET counts == { Cardinality(ActiveAt(Evts[i].start)) : i \in 1..Len(Evts) } \cup {0}
  IN  CHOOSE m \in counts : \A c \in counts : c <= m

C2_LaneCountIsMaxActive == Rendered => Cardinality(LanesUsed) = MaxActive

(***************************************************************************)
(* C3.  Label non-overlap, as claimed: in a portrait scene two labels of   *)
(* the same label column have vertical spans [top, top + LABEL_BOX_H) that *)
(* are disjoint and at least the resolution gap (2 px) apart.  Stated here *)
(* for a window of positive length and events that lie inside it: the      *)
(* clamp to height - LABEL_BOX_H still stacks labels near the bottom.      *)
(***************************************************************************)
LabelsApart(a, b) ==
  \/ Le(Plus(a.top, LABEL_BOX_H + 2), b.top)
  \/ Le(Plus(b.top, LABEL_BOX_H + 2), a.top)

C3_LabelsDisjoint ==
  (/\ Portrait
   /\ dayStart < dayEnd
   /\ \A i \in 1..Len(events) : InsideWindow(events[i]))
  => \A i, j \in 1..Len(Layout.labels) :
       (i # j /\ Layout.labels[i].col = Layout.labels[j].col)
         => LabelsApart(Layout.labels[i], Layout.labels[j])

(***************************************************************************)
(* C4.  Boundary clamp, as claimed: every label's final top t satisfies    *)
(* 0 <= t <= height - LABEL_BOX_H.  Stated here for a window of positive   *)
(* length and events whose clamped interval is not empty: the code has no  *)
(* lower clamp, and an event that starts before the window puts its label  *)
(* above y = 0.                                                            *)
(***************************************************************************)
C4_LabelTopInCanvas ==
  (/\ Portrait
   /\ dayStart < dayEnd
   /\ \A i \in 1..Len(events) : ~ClampedEmpty(events[i]))
  => \A i \in 1..Len(Layout.labels) :
       /\ Le(0, Layout.labels[i].top)
       /\ Le(Layout.labels[i].top, Plus(Layout.height, -LABEL_BOX_H))

(***************************************************************************)
(* C5.  Dropping, as claimed: an event whose interval clamped to the       *)
(* window is empty gets no lane, no tick, no leader and no label (stated   *)
(* here for a window of positive length).  The portrait component clamps   *)
(* and drops nothing; the landscape one drops the segment only after the   *)
(* lanes are assigned.                                                     *)
(***************************************************************************)
C5_ClampedEmptyDropped ==
  (Rendered /\ dayStart < dayEnd)
  => \A i \in 1..Len(events) :
       ClampedEmpty(events[i])
         => IF Layout.view = "portrait"
              THEN /\ \A k \in 1..Len(Layout.ticks) : Layout.ticks[k].id # i - 1
                   /\ \A k \in 1..Len(Layout.labels) : Layout.labels[k].id # i - 1
              ELSE /\ (i - 1) \notin DOMAIN Layout.laneMap
                   /\ \A k \in 1..Len(Layout.segments) : Layout.segments[k].id # i - 1

(***************************************************************************)
(* C6.  Density conservation: in a portrait scene, what computeDensity-    *)
(* Buckets adds for one event sums, over all buckets, to the event's       *)
(* duration clamped to the window; an event that lies inside one bucket    *)
(* puts that whole duration into this bucket; and the buckets of the scene *)
(* sum to the clamped durations of all events.                             *)
(***************************************************************************)
C6_DensityConserved ==
  Portrait =>
    /\ \A i \in 1..Len(Evts) :
         LET e   == Evts[i]
             add == EventOverlaps(e, dayStart, dayEnd, DENSITY_BUCKET_MINUTES)
         IN  /\ SumSeq(add) = ClampedDuration(e)
             /\ \A k \in 1..Len(add) :
                  (/\ dayStart + (k - 1) * DENSITY_BUCKET_MINUTES <= e.start
                   /\ e.start < e.end
                   /\ e.end <= dayStart + k * DENSITY_BUCKET_MINUTES
                   /\ e.end <= dayEnd)
                    => add[k] = e.end - e.start
    /\ SumSeq(Layout.buckets)
         = SumSeq([i \in 1..Len(Evts) |-> ClampedDuration(Evts[i])])
    /\ Len(Evts) = 1
         => Layout.buckets = EventOverlaps(Evts[1], dayStart, dayEnd, DENSITY_BUCKET_MINUTES)

\* An event cut by the window's start, an event inside one bucket, and a
\* bucket covered only in part.
C6_Witness ==
  /\ Portrait
  /\ \E i \in 1..Len(Evts) :
       /\ 0 < ClampedDuration(Evts[i])
       /\ ClampedDuration(Evts[i]) < Evts[i].end - Evts[i].start
  /\ \E i \in 1..Len(Evts) : \E k \in 1..Len(Layout.buckets) :
       /\ dayStart + (k - 1) * DENSITY_BUCKET_MINUTES <= Evts[i].start
       /\ Evts[i].end <= dayStart + k * DENSITY_BUCKET_MINUTES
       /\ Layout.buckets[k] = Evts[i].end - Evts[i].start
       /\ Layout.buckets[k] > 0
  /\ \E k \in 1..Len(Layout.buckets) :
       Layout.buckets[k] > 0 /\ Layout.buckets[k] < DENSITY_BUCKET_MINUTES

(***************************************************************************)
(* C7.  Safe normalisation: in a portrait scene there is at least one      *)
(* bucket, maxBucket is max(1, largest bucket), hence >= 1, and every      *)
(* bucket v satisfies 0 <= v <= maxBucket, so v / maxBucket is in [0, 1].  *)
(***************************************************************************)
C7_DensityNormalised ==
  Portrait =>
    /\ Len(Layout.buckets) >= 1
    /\ Layout.maxBucket >= 1
    /\ \A k \in 1..Len(Layout.buckets) :
         0 <= Layout.buckets[k] /\ Layout.buckets[k] <= Layout.maxBucket
    /\ \/ Layout.maxBucket = 1
       \/ \E k \in 1..Len(Layout.buckets) : Layout.buckets[k] = Layout.maxBucket
    /\ \A k \in 1..Len(Layout.density) :
         /\ Layout.density[k].den >= 1
         /\ 3 * Layout.density[k].den <= Layout.density[k].num
         /\ Layout.density[k].num <= 23 * Layout.density[k].den

\* A window of zero length with events in the request: one bucket, maxBucket 1.
C7_Witness ==
  /\ Portrait
  /\ dayStart = dayEnd
  /\ Len(events) > 0
  /\ showDensity
  /\ Layout.buckets = <<0>>
  /\ Layout.maxBucket = 1

(***************************************************************************)
(* C8.  The laid-out sequence is the input sorted ascending by (start,     *)
(* end), events equal in both fields in input order, each with the id of   *)
(* its index in the input.                                                 *)
(***************************************************************************)
C8_SortedStableWithIds ==
  Rendered =>
    /\ Len(Evts) = Len(events)
    /\ { Evts[k].id : k \in 1..Len(Evts) } = 0..(Len(events) - 1)
    /\ \A k \in 1..Len(Evts) :
         /\ Evts[k].start = events[Evts[k].id + 1].start
         /\ Evts[k].end = events[Evts[k].id + 1].end
    /\ \A k, l \in 1..Len(Evts) :
         k < l =>
           \/ Evts[k].start < Evts[l].start
           \/ Evts[k].start = Evts[l].start /\ Evts[k].end < Evts[l].end
           \/ /\ Evts[k].start = Evts[l].start
              /\ Evts[k].end = Evts[l].end
              /\ Evts[k].id < Evts[l].id

\* An input out of order that holds the same event twice and two events that
\* start together and end apart.
C8_Witness ==
  /\ Rendered
  /\ Len(events) = 3
  /\ events[1].start = events[2].start /\ events[1].end > events[2].end
  /\ events[3] = events[1]
  /\ Evts[1].id = 1 /\ Evts[2].id = 0 /\ Evts[3].id = 2

C10_ZeroWindowFinite ==
  (Rendered /\ dayStart = dayEnd) =>
    IF Layout.view = "portrait"
      THEN /\ \A k \in 1..Len(Layout.ticks) :
                IsFinite(Layout.ticks[k].y1) /\ IsFinite(Layout.ticks[k].y2)
           /\ \A k \in 1..Len(Layout.labels) : IsFinite(Layout.labels[k].top)
           /\ \A k \in 1..Len(scene[1].clock.nowMarker) :
                IsFinite(scene[1].clock.nowMarker[k].cy)
      ELSE /\ \A k \in 1..Len(Layout.segments) :
                FracIsFinite(Layout.segments[k].x) /\ FracIsFinite(Layout.segments[k].width)
           /\ \A k \in 1..Len(scene[1].clock.nowMarker) :
                FracIsFinite(scene[1].clock.nowMarker[k].left)

(***************************************************************************)
(* C11.  The "now" marker is in the rendered scene exactly when the minute *)
(* of day m read at render time satisfies dayStart <= m <= dayEnd          *)
(* (portrait: the circle on the axis; landscape: showCurrent).             *)
(***************************************************************************)
C11_NowMarkerIffInWindow ==
  Rendered =>
    (scene[1].clock.nowMarker # <<>>
       <=> (dayStart <= scene[1].clock.minutes /\ scene[1].clock.minutes <= dayEnd))

\* A portrait render at a minute inside a window of positive length: the
\* marker is there, on the axis.
C11_Witness ==
  /\ Portrait
  /\ dayStart < scene[1].clock.minutes /\ scene[1].clock.minutes < dayEnd
  /\ Len(scene[1].clock.nowMarker) = 1
  /\ scene[1].clock.nowMarker[1].cx = axisX

(***************************************************************************)
(* C12.  No events: a render of the empty event list in the window         *)
(* [480, 1260] has no ticks, no labels, no lanes (landscape: laneCount 0   *)
(* and no segments), and in the portrait scene 78 density buckets that are *)
(* all zero with maxBucket = 1.                                            *)
(***************************************************************************)
C12_EmptyDay ==
  (Rendered /\ events = <<>> /\ dayStart = 480 /\ dayEnd = 1260) =>
    /\ Evts = <<>>
    /\ LanesUsed = {}
    /\ IF Layout.view = "portrait"
         THEN /\ Layout.ticks = <<>>
              /\ Layout.labels = <<>>
              /\ Len(Layout.buckets) = 78
              /\ \A k \in 1..Len(Layout.buckets) : Layout.buckets[k] = 0
              /\ Layout.maxBucket = 1
         ELSE /\ Layout.laneCount = 0
              /\ Layout.segments = <<>>

\* The empty day rendered in portrait with the density line on: 78 points,
\* all on the baseline.
C12_Witness ==
  /\ Portrait
  /\ events = <<>> /\ dayStart = 480 /\ dayEnd = 1260
  /\ showDensity
  /\ Len(Layout.density) = 78
  /\ \A k \in 1..Len(Layout.density) :
       Layout.density[k].num = 23 * Layout.density[k].den

(***************************************************************************)
(* Reading the result of the last fetchTodaysEvents call.                  *)
(***************************************************************************)
Fetched == fetched # <<>>

LiveConfigured == credentialsPath # "" /\ calendarIds # <<>>

(***************************************************************************)
(* C13.  Fallback to the sample events.  As claimed: a fetch resolves to   *)
(* SAMPLE_EVENTS whenever the credentials path or the calendar id list is  *)
(* missing, the credentials file does not exist, or a calendar API call    *)
(* throws.  The file is looked at only when there is neither a fresh cache *)
(* nor a calendarService from an earlier call.  As amended: every fetch    *)
(* resolves to an event list, the fresh cache if there is one, else        *)
(* SAMPLE_EVENTS when the path or the id list is missing, when no service  *)
(* exists yet and the file does not exist, or when an API call throws, and *)
(* else the live list.                                                     *)
(***************************************************************************)
C13_SampleWheneverFileMissing ==
  Fetched =>
    ((\/ ~LiveConfigured
      \/ ~fetched[1].fileExists
      \/ fetched[1].threw)
       => fetched[1].events = SAMPLE_EVENTS)

C13_SampleUnlessCached ==
  Fetched =>
    /\ fetched[1].source \in {"cache", "sample", "live"}
    /\ fetched[1].source = "cache" <=> fetched[1].cacheFresh
    /\ fetched[1].source = "sample" <=> fetched[1].events = SAMPLE_EVENTS
    /\ (\/ ~LiveConfigured
        \/ ~fetched[1].cacheFresh /\ ~fetched[1].hadService /\ ~fetched[1].fileExists
        \/ fetched[1].threw)
         => fetched[1].events = SAMPLE_EVENTS

\* The second of two calendars throws after the first has answered: the
\* fetch resolves to the sample events.
C13_Witness ==
  /\ Fetched
  /\ LiveConfigured
  /\ fetched[1].threw /\ fetched[1].calls = 2
  /\ fetched[1].events = SAMPLE_EVENTS

(***************************************************************************)
(* C14.  Last known good, as claimed: a fetch in which an API call throws, *)
(* after an earlier live fetch for the same day succeeded, resolves to the *)
(* list that earlier fetch returned.  The code resolves to SAMPLE_EVENTS.  *)
(***************************************************************************)
C14_LastKnownGood ==
  (Fetched /\ fetched[1].threw /\ lastGood[fetched[1].day] # <<>>)
    => fetched[1].events = lastGood[fetched[1].day][1]

(***************************************************************************)
(* C15.  Custom executable, as claimed: when PUPPETEER_EXECUTABLE_PATH is  *)
(* set, the launch options built have that value as executablePath, on     *)
(* every host.  The code takes the environment's path only when the        *)
(* bundled @sparticuz/chromium has not set one.                            *)
(***************************************************************************)
C15_CustomExecutableLaunched ==
  (launch # <<>> /\ host.PUPPETEER_EXECUTABLE_PATH # NoPath)
    => launch[1].executablePath = host.PUPPETEER_EXECUTABLE_PATH

(***************************************************************************)
(* C16.  findSystemChromiumExecutable returns the first location of the    *)
(* search order that is an executable regular file, and null when there is *)
(* none; the search order is the absolute candidates in list order, then   *)
(* for each (non-empty) PATH entry in order each candidate name in order;  *)
(* no location is tested twice.                                            *)
(***************************************************************************)
PathEntries == SelectSeq(search.envPath, LAMBDA e : e.dir # "")

ClaimedOrder ==
  LET n == Len(search.pathCandidates)
  IN  search.absoluteCandidates
        \o [k \in 1..(Len(PathEntries) * n) |->
              Loc(PathEntries[((k - 1) \div n) + 1].dir,
                  search.pathCandidates[((k - 1) % n) + 1])]

IsExecutableFile(loc) == loc \in DOMAIN files /\ files[loc] = "exec"

C16_FirstExecutableInOrder ==
  found # <<>> =>
    LET hits == { k \in 1..Len(ClaimedOrder) : IsExecutableFile(ClaimedOrder[k]) }
    IN  /\ IF hits = {}
             THEN found[1].result = <<>>
             ELSE found[1].result
                    = <<ClaimedOrder[CHOOSE k \in hits : \A l \in hits : k <= l]>>
        /\ \A i, j \in 1..Len(found[1].tested) :
             i # j => found[1].tested[i] # found[1].tested[j]
        /\ \A i \in 1..Len(found[1].tested) :
             \E k \in 1..Len(ClaimedOrder) : ClaimedOrder[k] = found[1].tested[i]

\* A browser found through the PATH, after a directory and a file without the
\* execute bit were passed over and a location listed twice was tested once.
C16_Witness ==
  /\ found # <<>>
  /\ found[1].result # <<>>
  /\ \A k \in 1..Len(search.absoluteCandidates) :
       search.absoluteCandidates[k] # found[1].result[1]
  /\ \E i \in 1..Len(found[1].tested) : KindOf(files, found[1].tested[i]) = "file"
  /\ \E i \in 1..Len(found[1].tested) : KindOf(files, found[1].tested[i]) = "dir"
  /\ \E k, l \in 1..Len(ClaimedOrder) :
       /\ k < l /\ ClaimedOrder[k] = ClaimedOrder[l]
       /\ \E i \in 1..Len(found[1].tested) : found[1].tested[i] = ClaimedOrder[k]
       /\ \E m \in 1..Len(ClaimedOrder) : m > l /\ ClaimedOrder[m] = found[1].result[1]

(***************************************************************************)
(* C17.  The sweep: in a rendered scene every event has the smallest lane  *)
(* index not held by an earlier event (in sorted order) whose end is       *)
(* strictly greater than its start; an earlier event that ends exactly at  *)
(* its start holds nothing; and an event gets the lane whose index is the  *)
(* number of lanes in use so far only when all of those are held.          *)
(***************************************************************************)
HeldFor(i) == { LaneOf(j) : j \in { k \in 1..(i - 1) : Evts[k].end > Evts[i].start } }

LanesBefore(i) == { LaneOf(j) : j \in 1..(i - 1) }

C17_SmallestFreeLane ==
  Rendered =>
    \A i \in 1..Len(Evts) :
      /\ LaneOf(i) \notin HeldFor(i)
      /\ \A l \in 0..(LaneOf(i) - 1) : l \in HeldFor(i)
      /\ LaneOf(i) = Cardinality(LanesBefore(i))
           => HeldFor(i) = 0..(Cardinality(LanesBefore(i)) - 1)

\* Two events that touch share lane 0 while a third, running across both,
\* holds lane 1.
C17_Witness ==
  /\ Landscape
  /\ Len(Evts) = 3
  /\ Evts[1].end = Evts[3].start /\ Evts[1].start < Evts[1].end
  /\ LaneOf(1) = 0 /\ LaneOf(3) = 0
  /\ LaneOf(2) = 1

(***************************************************************************)
(* C18.  Label clusters, as claimed: in a portrait scene the clusters of   *)
(* assignLabelColumnsTop are runs of consecutive labels in ascending       *)
(* desiredTop order that together hold every label once; a label joins the *)
(* current cluster exactly when its desiredTop is less than the cluster's  *)
(* running bottom plus minGap; and two labels of different clusters have   *)
(* desired tops at least boxH + minGap apart.  In a window of zero length  *)
(* the desired tops are NaN or infinite and the last part fails.           *)
(***************************************************************************)
SceneLabelItems == LabelItems(Evts, YRanges(Evts, dayStart, dayEnd))

SceneClusters == LabelClusters(SceneLabelItems, LABEL_BOX_H, LABEL_MIN_GAP)

RECURSIVE Flatten(_, _)
Flatten(seqs, i) == IF i > Len(seqs) THEN <<>> ELSE seqs[i] \o Flatten(seqs, i + 1)

\* The running bottom of a cluster after its first p labels.
RECURSIVE RunningBottom(_, _)
RunningBottom(cluster, p) ==
  IF p = 1 THEN Plus(cluster[1].desiredTop, LABEL_BOX_H)
  ELSE MathMax(RunningBottom(cluster, p - 1), Plus(cluster[p].desiredTop, LABEL_BOX_H))

C18_Clusters ==
  Portrait =>
    LET clusters == SceneClusters
        all      == Flatten(clusters, 1)
    IN  /\ Len(all) = Len(SceneLabelItems)
        /\ { all[k].id : k \in 1..Len(all) } = { Evts[k].id : k \in 1..Len(Evts) }
        /\ \A k \in 1..(Len(all) - 1) : ~Lt(all[k + 1].desiredTop, all[k].desiredTop)
        /\ \A c \in 1..Len(clusters) :
             /\ Len(clusters[c]) >= 1
             /\ \A p \in 2..Len(clusters[c]) :
                  Lt(clusters[c][p].desiredTop,
                     Plus(RunningBottom(clusters[c], p - 1), LABEL_MIN_GAP))
             /\ c > 1 =>
                  ~Lt(clusters[c][1].desiredTop,
                      Plus(RunningBottom(clusters[c - 1], Len(clusters[c - 1])), LABEL_MIN_GAP))
        /\ \A c, d \in 1..Len(clusters) :
             c < d =>
               \A p \in 1..Len(clusters[c]) : \A q \in 1..Len(clusters[d]) :
                 Le(Plus(clusters[c][p].desiredTop, LABEL_BOX_H + LABEL_MIN_GAP),
                    clusters[d][q].desiredTop)

(***************************************************************************)
(* C19.  Label columns of a cluster: in a portrait scene the label at      *)
(* position i (0-based, ascending desiredTop) of a cluster of k labels has *)
(* column k - 1 - i, so the columns of a cluster are 0..k-1, each once,    *)
(* the first label has k - 1 and the last 0; and the events 9:00-10:00 and *)
(* 9:15-9:45, rendered in a window of positive length, get label columns 1 *)
(* and 0.                                                                  *)
(***************************************************************************)
LabelColOf(id) ==
  Layout.labels[CHOOSE k \in 1..Len(Layout.labels) : Layout.labels[k].id = id].col

LabelTopOf(id) ==
  Layout.labels[CHOOSE k \in 1..Len(Layout.labels) : Layout.labels[k].id = id].top

\* The labels of one column in the order of the walk.
ColumnWalk(col) ==
  ArraySort(SelectSeq(SceneLabelItems, LAMBDA it : LabelColOf(it.id) = col), "desiredTop")

ClaimedTop(desired, previousBottom) ==
  MathMax(0, MathMin(MathMax(desired, Plus(previousBottom, LABEL_MIN_GAP)),
                     Plus(Layout.height, -LABEL_BOX_H)))

C20_TopsAsResolved ==
  Portrait =>
    \A col \in { Layout.labels[k].col : k \in 1..Len(Layout.labels) } :
      LET arr == ColumnWalk(col)
      IN  \A p \in 1..Len(arr) :
            LabelTopOf(arr[p].id)
              = ClaimedTop(arr[p].desiredTop,
                           IF p = 1 THEN NegInfinity
                           ELSE Plus(LabelTopOf(arr[p - 1].id), LABEL_BOX_H))

(***************************************************************************)
(* C21.  Deconfliction gap, as claimed: in a portrait scene two events a   *)
(* and b with a.end = b.start have separated tick ranges, a.y2 < b.y1,     *)
(* whatever else is in the list (stated here for a window of positive      *)
(* length and events with end > start).  The pass compares only ranges     *)
(* that are neighbours in the sorted order.                                *)
(***************************************************************************)
C21_AbuttingTicksSeparated ==
  (/\ Portrait
   /\ dayStart < dayEnd
   /\ \A i \in 1..Len(events) : events[i].start < events[i].end)
  => \A i, j \in 1..Len(Evts) :
       (i # j /\ Evts[i].end = Evts[j].start)
         => Lt(Layout.ticks[i].y2, Layout.ticks[j].y1)

(***************************************************************************)
(* C22.  The event cache.  It holds nothing or the list of the last fully  *)
(* successful live fetch for its key (never SAMPLE_EVENTS, never the part  *)
(* collected before a calendar threw); a fetch resolves to the cached list *)
(* without an API call exactly when the cache was filled for the same day  *)
(* key less than EVENT_CACHE_TTL_MS before; in every other case it goes on *)
(* to a new fetch, which calls the API once a calendar service is there.   *)
(***************************************************************************)
C22_CacheOnlyFreshLive ==
  /\ eventsCache.events # <<>> =>
       /\ eventsCache.key \in Days
       /\ eventsCache.events = lastGood[eventsCache.key]
       /\ eventsCache.events[1] # SAMPLE_EVENTS
       /\ eventsCache.fetchedAt <= clock
  /\ Fetched =>
       LET f     == fetched[1]
           fresh == /\ f.cache.events # <<>>
                    /\ f.cache.key = f.day
                    /\ f.at - f.cache.fetchedAt < 2 * 60 * 1000
       IN  /\ f.source = "cache" <=> fresh
           /\ f.source = "cache" => f.calls = 0 /\ f.events = f.cache.events[1]
           /\ (~fresh /\ LiveConfigured /\ (f.hadService \/ f.fileExists)) => f.calls >= 1
           /\ (f.source = "live")
                <=> (f.calls = Len(calendarIds) /\ ~f.threw /\ f.calls >= 1)
           /\ f.source = "live" => f.events = lastGood[f.day][1]
           /\ f.source # "live" => (f.at > f.cache.fetchedAt \/ eventsCache = f.cache)

\* A fetch one millisecond before the cache expires: the cached list, no call.
C22_Witness ==
  /\ Fetched
  /\ fetched[1].source = "cache"
  /\ fetched[1].at - fetched[1].cache.fetchedAt = EVENT_CACHE_TTL_MS - 1
  /\ Len(fetched[1].events) > 0
  /\ Len(calendarIds) = 2

(***************************************************************************)
(* The render queue of the server (part_008 229-262, 363-409, 417-507; the *)
(* same serialize is in render_server.js 102-107).  A request enqueues its *)
(* job with serialize; the event loop then runs the tasks one await at a   *)
(* time.  GET / and GET /png run with the server's sample data (no         *)
(* credentials configured), POST /render renders the posted events.        *)
(***************************************************************************)
MaxJobs == 2

Routes == {"/", "/png", "/render"}

\* Mutant: handlers that do not wait for the promise they are attached to.
ThenAlways(chain) == TRUE

\* renderChain.then(fn, fn): fn is called once the chain has settled, fulfilled
\* or rejected.
Then(chain) == chain # "pending"

\* Mutant: renderChain = next, without the catch.
CatchNothing(st) ==
  CASE st = "resolved" -> "fulfilled"
    [] st = "rejected" -> "rejected"
    [] OTHER           -> "pending"

\* next.catch(() => {}): the promise stored in renderChain, given the state of
\* next.
Catch(st) == IF st \in {"resolved", "rejected"} THEN "fulfilled" ELSE "pending"

\* The module-level renderChain: Promise.resolve() until serialize is called.
RenderChain == IF jobs = <<>> THEN "fulfilled" ELSE jobs[Len(jobs)].chain

\* The task's function returns or throws.
Settle(t, st) == [t EXCEPT !.st = st, !.pc = "", !.chain = Catch(st)]

\* serialize(fn), called by a route handler.
serialize(route) ==
  /\ Len(jobs) < MaxJobs
  /\ jobs' = Append(jobs, Task(route, "queued"))

\* Number of puppeteer.launch calls so far.
Launched == IF promises = <<>> THEN 0 ELSE promises[Len(promises)].browser

\* getBrowser(): the value of browserPromise after the call.
getBrowser ==
  IF browserPromise.st = "undefined"
    THEN [st |-> "pending", id |-> Launched + 1]
    ELSE browserPromise

\* getPage() up to its first await: the module state after the call.
getPage ==
  IF pagePromise # 0
    THEN [browserPromise |-> browserPromise, pagePromise |-> pagePromise,
          promises |-> promises]
    ELSE [browserPromise |-> getBrowser, pagePromise |-> Len(promises) + 1,
          promises |-> Append(promises,
                         [st |-> IF getBrowser.st = "fulfilled" THEN "opening"
                                                                ELSE "launching",
                          browser |-> getBrowser.id, closed |-> FALSE, why |-> ""])]

\* Mutant: a resetPage whose finally block leaves pagePromise as it is.
KeepPagePromise(current) == current

\* resetPage(), the finally block: pagePromise = undefined.
ClearPagePromise(current) == 0

Outcome(t, pp, ps) == [task |-> t, pagePromise |-> pp, promises |-> ps]

\* The catch block of renderPngFromHtml up to the first await of resetPage.
Throws(t, at) ==
  LET failed == [t EXCEPT !.failedAt = at]
  IN  Outcome(IF pagePromise = 0
                THEN Settle(failed, "rejected")
                ELSE [failed EXCEPT !.pc = "resetPage", !.awaits = pagePromise],
              pagePromise, promises)

\* renderPngFromHtml from the await of pagePromise in getPage on: the ways the
\* task can go on from the await it is suspended at.  A call on a closed page
\* throws.
renderPngFromHtml(t) ==
  CASE t.pc = "page" ->
         IF promises[t.awaits].st = "rejected"
           THEN { Outcome(Settle([t EXCEPT !.failedAt = promises[t.awaits].why], "rejected"),
                          pagePromise, promises) }
         ELSE IF promises[t.awaits].st = "fulfilled"
           THEN { Outcome(Settle([t EXCEPT !.failedAt = "setViewport", !.page = t.awaits],
                                 "rejected"),
                          pagePromise, promises) }
                \cup (IF promises[t.awaits].closed THEN {}
                      ELSE { Outcome([t EXCEPT !.pc = "setContent", !.page = t.awaits],
                                     pagePromise, promises) })
         ELSE {}
    [] t.pc = "setContent" ->
         { Throws(t, "setContent") }
         \cup (IF promises[t.page].closed THEN {}
               ELSE { Outcome([t EXCEPT !.pc = "screenshot"], pagePromise, promises) })
    [] t.pc = "screenshot" ->
         { Throws(t, "screenshot") }
         \cup (IF promises[t.page].closed THEN {}
               ELSE { Outcome(Settle(t, "resolved"), pagePromise, promises) })
    [] t.pc = "resetPage" ->
         IF promises[t.awaits].st = "rejected"
           THEN { Outcome(Settle(t, "rejected"), ClearPagePromise(pagePromise), promises) }
         ELSE IF promises[t.awaits].st = "fulfilled"
           THEN { Outcome(Settle([t EXCEPT !.close = c], "rejected"),
                          ClearPagePromise(pagePromise),
                          [promises EXCEPT ![t.awaits].closed = @ \/ c = "ok"])
                  : c \in {"ok", "threw"} }
         ELSE {}
    [] OTHER -> {}

InitServe ==
  /\ events = <<>>
  /\ dayStart = 480 /\ dayEnd = 1260
  /\ showDensity = FALSE
  /\ scene = <<>>
  /\ prev = <<>>
  /\ ServerIdle
  /\ LaunchIdle
  /\ jobs = <<>>
  /\ warmup \in { Task("warmup", "off"), Task("warmup", "queued") }
  /\ browserPromise = NoBrowser
  /\ pagePromise = 0
  /\ promises = <<>>

\* A request for one of the routes arrives: its handler calls serialize.
Request(route) ==
  /\ serialize(route)
  /\ UNCHANGED <<warmup, browserPromise, pagePromise, promises>>
  /\ UNCHANGED <<renderVars, fetchVars, launchVars>>

\* The function of job i is called, and runs to its first await: POST /render
\* has none and returns or throws from renderCalendarHtml; GET / and GET /png
\* call fetchTodaysEvents.
StartJob(i) ==
  /\ jobs[i].st = "queued"
  /\ Then(IF i = 1 THEN "fulfilled" ELSE jobs[i - 1].chain)
  /\ LET t == [jobs[i] EXCEPT !.st = "running", !.runs = @ + 1]
     IN  \/ /\ t.route = "/render"
            /\ \/ jobs' = [jobs EXCEPT ![i] = Settle(t, "resolved")]
               \/ jobs' = [jobs EXCEPT
                             ![i] = Settle([t EXCEPT !.failedAt = "renderCalendarHtml"],
                                           "rejected")]
            /\ UNCHANGED fetchVars
         \/ /\ t.route # "/render"
            /\ jobs' = [jobs EXCEPT ![i] = [t EXCEPT !.pc = "fetchTodaysEvents"]]
            /\ fetchTodaysEvents(1, <<>>)
            /\ UNCHANGED <<credentialsPath, calendarIds, fileExists, clock>>
  /\ UNCHANGED <<warmup, browserPromise, pagePromise, promises>>
  /\ UNCHANGED <<renderVars, launchVars>>

\* fetchTodaysEvents has returned: GET / sends the HTML, GET /png calls
\* renderPngFromHtml, which calls getPage.
ContinueJob(i) ==
  /\ jobs[i].st = "running"
  /\ jobs[i].pc = "fetchTodaysEvents"
  /\ \/ /\ jobs[i].route = "/"
        /\ jobs' = [jobs EXCEPT ![i] = Settle(@, "resolved")]
        /\ UNCHANGED <<browserPromise, pagePromise, promises>>
     \/ /\ jobs[i].route = "/png"
        /\ jobs' = [jobs EXCEPT ![i] = [@ EXCEPT !.pc = "page",
                                                !.awaits = getPage.pagePromise]]
        /\ browserPromise' = getPage.browserPromise
        /\ pagePromise' = getPage.pagePromise
        /\ promises' = getPage.promises
  /\ UNCHANGED warmup
  /\ UNCHANGED <<renderVars, fetchVars, launchVars>>

\* Job i goes on from an await inside renderPngFromHtml.
JobStep(i) ==
  /\ jobs[i].st = "running"
  /\ \E o \in renderPngFromHtml(jobs[i]) :
       /\ jobs' = [jobs EXCEPT ![i] = o.task]
       /\ pagePromise' = o.pagePromise
       /\ promises' = o.promises
  /\ UNCHANGED <<warmup, browserPromise>>
  /\ UNCHANGED <<renderVars, fetchVars, launchVars>>

\* The timer set after listen fires: warmupRenderer calls renderPngFromHtml.
WarmupStart ==
  /\ warmup.st = "queued"
  /\ warmup' = [warmup EXCEPT !.st = "running", !.runs = @ + 1, !.pc = "page",
                              !.awaits = getPage.pagePromise]
  /\ browserPromise' = getPage.browserPromise
  /\ pagePromise' = getPage.pagePromise
  /\ promises' = getPage.promises
  /\ UNCHANGED jobs
  /\ UNCHANGED <<renderVars, fetchVars, launchVars>>

\* The warmup goes on from an await inside renderPngFromHtml.
WarmupStep ==
  /\ warmup.st = "running"
  /\ \E o \in renderPngFromHtml(warmup) :
       /\ warmup' = o.task
       /\ pagePromise' = o.pagePromise
       /\ promises' = o.promises
  /\ UNCHANGED <<jobs, browserPromise>>
  /\ UNCHANGED <<renderVars, fetchVars, launchVars>>

\* puppeteer.launch settles: on success the page promises waiting for it call
\* newPage, on failure the catch handler clears browserPromise and they reject.
LaunchSettles(ok) ==
  /\ browserPromise.st = "pending"
  /\ browserPromise' = IF ok THEN [browserPromise EXCEPT !.st = "fulfilled"] ELSE NoBrowser
  /\ promises' = [p \in 1..Len(promises) |->
                    IF promises[p].st = "launching"
                      THEN IF ok THEN [promises[p] EXCEPT !.st = "opening"]
                                 ELSE [promises[p] EXCEPT !.st = "rejected", !.why = "launch"]
                      ELSE promises[p]]
  /\ UNCHANGED <<jobs, warmup, pagePromise>>
  /\ UNCHANGED <<renderVars, fetchVars, launchVars>>

\* browser.newPage settles.
NewPageSettles(p, ok) ==
  /\ promises[p].st = "opening"
  /\ promises' = [promises EXCEPT ![p] = IF ok THEN [@ EXCEPT !.st = "fulfilled"]
                                               ELSE [@ EXCEPT !.st = "rejected",
                                                              !.why = "newPage"]]
  /\ UNCHANGED <<jobs, warmup, browserPromise, pagePromise>>
  /\ UNCHANGED <<renderVars, fetchVars, launchVars>>

\* What the event loop does once a request has been taken.
Progress ==
  \/ \E i \in 1..Len(jobs) : StartJob(i)
  \/ \E i \in 1..Len(jobs) : ContinueJob(i)
  \/ \E i \in 1..Len(jobs) : JobStep(i)
  \/ WarmupStart
  \/ WarmupStep
  \/ \E ok \in BOOLEAN : LaunchSettles(ok)
  \/ \E p \in 1..Len(promises) : \E ok \in BOOLEAN : NewPageSettles(p, ok)

NextServe ==
  \/ \E route \in Routes : Request(route)
  \/ Progress

SpecServe == InitServe /\ [][NextServe]_vars

\* The event loop runs every continuation that is ready, and the calls into
\* puppeteer settle.
SpecServeFair == SpecServe /\ WF_vars(Progress)

Tasks == [i \in 1..Len(jobs) |-> jobs[i]] \o <<warmup>>

Settled(t) == t.st \in {"resolved", "rejected"}

UsingPage(t) == t.st = "running" /\ t.pc \in {"setContent", "screenshot"}

(***************************************************************************)
(* C23.  Jobs handed to serialize run one at a time, in the order of the   *)
(* serialize calls: a job has started only if every job enqueued before it *)
(* has settled, so at most one job is between its start and its settlement.*)
(***************************************************************************)
C23_OneJobAtATime ==
  /\ \A i, j \in 1..Len(jobs) :
       (i < j /\ jobs[j].st # "queued") => Settled(jobs[i])
  /\ Cardinality({ i \in 1..Len(jobs) : jobs[i].st = "running" }) <= 1

\* The first job has rejected and the second, enqueued while the first ran, is
\* taking its screenshot.
C23_Witness ==
  /\ Len(jobs) = 2
  /\ jobs[1].st = "rejected" /\ jobs[1].failedAt = "screenshot"
  /\ jobs[2].st = "running" /\ jobs[2].pc = "screenshot"
  /\ jobs[2].page > jobs[1].page

(***************************************************************************)
(* C24.  A job that rejects inside serialize rejects only the promise of   *)
(* its own caller: renderChain never becomes a rejected promise, no job's  *)
(* function is called twice, and, as long as the running job settles,      *)
(* every job that was enqueued is eventually called once and settles.      *)
(***************************************************************************)
C24_RejectionIsolated ==
  /\ [](/\ RenderChain # "rejected"
        /\ \A i \in 1..Len(jobs) :
             /\ jobs[i].chain # "rejected"
             /\ jobs[i].runs <= 1
             /\ jobs[i].st # "queued" => jobs[i].runs = 1
             /\ jobs[i].st = "rejected" => jobs[i].failedAt # "")
  /\ \A i \in 1..MaxJobs :
       (Len(jobs) >= i) ~> (Len(jobs) >= i /\ Settled(jobs[i]) /\ jobs[i].runs = 1)

\* A job has rejected, and the job enqueued after it has run and resolved.
C24_Witness ==
  /\ Len(jobs) >= 2
  /\ jobs[1].st = "rejected" /\ jobs[1].failedAt = "renderCalendarHtml"
  /\ jobs[2].st = "resolved" /\ jobs[2].runs = 1
  /\ RenderChain = "fulfilled"

(***************************************************************************)
(* C25.  Every setContent/screenshot sequence on the shared page runs      *)
(* inside a serialized job, so no two of them are in flight on the same    *)
(* page at once, the warmup render included.                               *)
(***************************************************************************)
C25_PageUsesSerialized ==
  /\ UsingPage(warmup) => \A i \in 1..Len(jobs) : ~UsingPage(jobs[i])
  /\ \A a, b \in 1..Len(Tasks) :
       (a # b /\ UsingPage(Tasks[a]) /\ UsingPage(Tasks[b]))
         => Tasks[a].page # Tasks[b].page

(***************************************************************************)
(* C26.  A failed launch or newPage is not cached: a /png job that calls   *)
(* getPage after an earlier job was rejected by the failure gets a promise *)
(* of a new attempt, not the stored rejected one.                          *)
(***************************************************************************)
C26_FailedPageNotCached ==
  \A i, j \in 1..Len(jobs) :
    (/\ i < j
     /\ jobs[i].failedAt \in {"launch", "newPage"}
     /\ jobs[j].awaits # 0)
      => jobs[j].awaits # jobs[i].awaits

(***************************************************************************)
(* C27.  When setContent or screenshot throws in renderPngFromHtml, the    *)
(* task is rejected with the error and its page is no longer the shared    *)
(* one, whether page.close() returned or threw; a later /png job uses a    *)
(* page opened after it, on the same browser.                              *)
(***************************************************************************)
C27_PageDiscardedOnError ==
  /\ \A a \in 1..Len(Tasks) :
       (Settled(Tasks[a]) /\ Tasks[a].failedAt \in {"setContent", "screenshot"})
         => /\ Tasks[a].st = "rejected"
            /\ pagePromise # Tasks[a].page
  /\ \A i, j \in 1..Len(jobs) :
       (/\ i < j
        /\ jobs[i].failedAt \in {"setContent", "screenshot"}
        /\ jobs[j].awaits # 0)
         => /\ jobs[j].awaits > jobs[i].page
            /\ jobs[j].page \in {0} \cup { p \in 1..Len(promises) : p > jobs[i].page }
            /\ promises[jobs[j].awaits].browser = promises[jobs[i].page].browser
            /\ browserPromise = [st |-> "fulfilled", id |-> promises[jobs[i].page].browser]

\* setContent threw in the first job and page.close() threw in resetPage; the
\* second job took its screenshot on a new page of the same browser.
C27_Witness ==
  /\ Len(jobs) = 2
  /\ jobs[1].st = "rejected" /\ jobs[1].failedAt = "setContent" /\ jobs[1].close = "threw"
  /\ jobs[2].st = "resolved" /\ jobs[2].page = 2 /\ jobs[1].page = 1
  /\ promises[2].browser = promises[1].browser
  /\ warmup.st = "off"

(***************************************************************************)
(* Renders of a crowded morning: events that outlive the events they       *)
(* overlap, and one-minute events between abutting neighbours, in the      *)
(* window 06:00-21:00.                                                     *)
(***************************************************************************)
MaxDense == 3

DensePool ==
  { [start |-> 540, end |-> 560],
    [start |-> 555, end |-> 700],
    [start |-> 560, end |-> 600],
    [start |-> 600, end |-> 601],
    [start |-> 601, end |-> 660] }

InitDense ==
  /\ events \in SeqsUpTo(DensePool, MaxDense)
  /\ dayStart = 360 /\ dayEnd = 1260
  /\ showDensity = FALSE
  /\ scene = <<>>
  /\ prev = <<>>
  /\ ServerIdle
  /\ ServeIdle
  /\ LaunchIdle

SpecDense == InitDense /\ [][Next]_vars

(***************************************************************************)
(* C28.  The two lane assignments agree: on the event list sorted by       *)
(* (start, end), assignLanes (landscape) and assignOverlapColumns          *)
(* (portrait) give every event the same lane index; the lanes a rendered   *)
(* scene shows are the lanes the other component computes for its events.  *)
(***************************************************************************)
C28_LaneAssignmentsAgree ==
  /\ assignLanes(SortedEvts(events)).laneMap = assignOverlapColumns(SortedEvts(events))
  /\ Portrait =>
       \A i \in 1..Len(Evts) : Layout.ticks[i].col = assignLanes(Evts).laneMap[Evts[i].id]
  /\ Landscape =>
       \A i \in 1..Len(Evts) : Layout.laneMap[Evts[i].id] = assignOverlapColumns(Evts)[Evts[i].id]

\* Lane 0 is free again while lane 1 is still held: 09:00-09:20 in lane 0,
\* 09:15-11:40 in lane 1, and 10:00-10:01 back in lane 0.
C28_Witness ==
  /\ Portrait
  /\ Len(Evts) = 3
  /\ Evts[1].end <= Evts[3].start /\ Evts[2].end > Evts[3].start
  /\ Evts[2].start < Evts[1].end
  /\ Layout.ticks[1].col = 0 /\ Layout.ticks[2].col = 1 /\ Layout.ticks[3].col = 0

(***************************************************************************)
(* C29.  After the deconfliction pass every event with end > start has a   *)
(* tick with y1 <= y2, also when the tick was shortened at both ends       *)
(* because it abuts the tick before it and the tick after it.              *)
(***************************************************************************)
C29_TicksWellFormed ==
  Portrait =>
    \A i \in 1..Len(Evts) :
      Evts[i].end > Evts[i].start => Le(Layout.ticks[i].y1, Layout.ticks[i].y2)

=============================================================================
